---- MODULE Spec2Model ----
(***************************************************************************)
(* Hair salon: the Express server (backend/index.js), the MongoDB         *)
(* connection manager (backend/db.js), the analytics router               *)
(* (backend/routes/analytics.js), the seed script (backend/seed.js) and   *)
(* the frontend (hooks/useBookingForm.ts, services/razorpay.ts,           *)
(* pages/PaymentStatus, components/analytics/EmployeeDeepDive).           *)
(*                                                                         *)
(* The specifications of this module:                                      *)
(*   PaySpec       - the four Razorpay endpoints of index.js, one request  *)
(*                   at a time (the handlers share no mutable state);      *)
(*   DbSpec        - connectDB and the endpoints that await it, with       *)
(*                   several requests in flight at once;                   *)
(*   ApiSpec       - every endpoint of the server;                         *)
(*   AnalyticsSpec - the data routes of the analytics router;              *)
(*   BookingSpec   - the booking page and the payment-status page in one   *)
(*                   browser, against the payment endpoints;               *)
(*   LoaderSpec    - the checkout script loader over several visits of     *)
(*                   the booking page;                                     *)
(*   DeepDiveSpec  - the EmployeeDeepDive widget and its fetches;          *)
(*   SeedSpec      - the visits the seed script generates.                 *)
(*                                                                         *)
(* JavaScript strings are sequences of one-character strings.  JavaScript  *)
(* numbers are exact fractions here: a rupee amount is an integer number   *)
(* of thousandths of a rupee ("milli"), held as the fraction milli / 1000. *)
(* Binary floating-point representation error is not modelled.             *)
(***************************************************************************)
EXTENDS Integers, Sequences, FiniteSets, TLC

VARIABLES
    cfg,                \* process.env as read at start-up: [keyId, keySecret]
    pay,                \* the payment request being served and its response
    mongoUri,           \* whether process.env.MONGODB_URI is set
    readyState,         \* mongoose.connection.readyState
    connectionPromise,  \* db.js connectionPromise: 0 is null, else an attempt
    attempts,           \* one entry per mongoose.connect call: its promise's state
    callers,            \* the requests that are inside await connectDB() or a route
    visits,             \* the Visit collection
    last,               \* the response sent last by health or analytics
    location,           \* the page the browser shows: "booking" or "payment-status"
    dropdownData,       \* useBookingForm: the services of GET /api/form-data
    formData,           \* useBookingForm: the fields of the booking form
    isLoading,          \* useBookingForm: the submit button is disabled
    paymentError,       \* useBookingForm: the error shown under the form
    submits,            \* the handleSubmit invocations that have not returned
    scripts,            \* the elements of document.body with id razorpay-script
    paymentStatus,      \* PaymentStatus: [state, details] and its fetch
    verified,           \* the payment ids a verification answered success for
    qs,                 \* EmployeeDeepDive: the prop qs, the date range shown
    employees,          \* EmployeeDeepDive: the names of the select
    selected,           \* EmployeeDeepDive: the employee selected, "" for none
    data,               \* EmployeeDeepDive: the detail shown, or null
    loading,            \* EmployeeDeepDive: the skeleton is shown
    fetches             \* EmployeeDeepDive: its fetches that have not settled

payVars == <<cfg, pay>>
dbVars == <<mongoUri, readyState, connectionPromise, attempts, callers, last>>
deepDiveVars == <<qs, employees, selected, data, loading, fetches>>
bookingVars == <<location, dropdownData, formData, isLoading, paymentError, submits,
                 scripts, paymentStatus, verified>>
clientVars == <<bookingVars, deepDiveVars>>
vars == <<cfg, pay, mongoUri, readyState, connectionPromise, attempts, callers,
          visits, last, clientVars>>

-----------------------------------------------------------------------------
(* Bounds *)

MaxIdLen == 2        \* longest order / payment / link id
MaxRefLen == 1       \* longest reference id / link status
MaxNameLen == 1      \* longest customer name / phone
MaxAmtStrLen == 1    \* longest amount given as a string
MaxRupees == 1       \* largest whole-rupee part of a numeric amount
NumCallers == 2      \* requests in flight at once on health / analytics
MaxAttempts == 2     \* mongoose.connect calls in one process lifetime
MaxVisits == 4       \* documents in the Visit collection
MaxSubmits == 2      \* handleSubmit invocations that have not returned
MaxFetches == 3      \* fetches of EmployeeDeepDive that have not settled
MaxSeeded == 2       \* visits of the array seed() generates

-----------------------------------------------------------------------------
(* JavaScript values *)

Undefined == <<"\\undefined">>        \* a field that is not in the body / query
NonString == <<"\\number">>           \* a truthy JSON value that is no string

Strs(A, n) == UNION {[1..k -> A] : k \in 0..n}

\* !x for a string-or-undefined field
Falsy(x) == x = Undefined \/ x = <<>>

IsWs(c) == c = " "

RECURSIVE TrimStart(_)
TrimStart(s) ==
    IF s # <<>> /\ IsWs(Head(s)) THEN TrimStart(Tail(s)) ELSE s

RECURSIVE TrimEnd(_)
TrimEnd(s) ==
    IF s # <<>> /\ IsWs(s[Len(s)]) THEN TrimEnd(SubSeq(s, 1, Len(s) - 1)) ELSE s

\* String.prototype.trim
Trim(s) == TrimEnd(TrimStart(s))

\* Array.prototype.join renders undefined as the empty string
JoinStr(x) == IF x = Undefined THEN <<>> ELSE x

RECURSIVE Join(_, _)
Join(parts, sep) ==
    IF parts = <<>> THEN <<>>
    ELSE IF Len(parts) = 1 THEN JoinStr(parts[1])
    ELSE JoinStr(parts[1]) \o sep \o Join(Tail(parts), sep)

-----------------------------------------------------------------------------
(* Amounts: JSON values and their conversion to a number *)

\* A number is NaN or the exact fraction num / den, den > 0.
NaN == [nan |-> TRUE, num |-> 0, den |-> 1]
Rat(n, d) == [nan |-> FALSE, num |-> n, den |-> d]
Milli(m) == Rat(m, 1000)
Times(x, k) == IF x.nan THEN NaN ELSE Rat(x.num * k, x.den)
DivideBy(x, k) == IF x.nan THEN NaN ELSE Rat(x.num, x.den * k)
IsNaN(x) == x.nan

JsUndefined == [t |-> "undefined", m |-> 0, s |-> <<>>]
JsNull == [t |-> "null", m |-> 0, s |-> <<>>]
JsBool(b) == [t |-> "boolean", m |-> IF b THEN 1 ELSE 0, s |-> <<>>]
JsNum(m) == [t |-> "number", m |-> m, s |-> <<>>]
JsStr(s) == [t |-> "string", m |-> 0, s |-> s]
JsObject == [t |-> "object", m |-> 0, s |-> <<>>]

IsDigit(c) == c \in {"0", "1", "2", "3", "4", "5", "6", "7", "8", "9"}

DigitVal(c) ==
    CASE c = "0" -> 0 [] c = "1" -> 1 [] c = "2" -> 2 [] c = "3" -> 3
      [] c = "4" -> 4 [] c = "5" -> 5 [] c = "6" -> 6 [] c = "7" -> 7
      [] c = "8" -> 8 [] c = "9" -> 9

RECURSIVE DecimalValue(_)
DecimalValue(s) ==
    IF s = <<>> THEN 0
    ELSE 10 * DecimalValue(SubSeq(s, 1, Len(s) - 1)) + DigitVal(s[Len(s)])

IsDigits(t) == \A i \in 1..Len(t) : IsDigit(t[i])

RECURSIVE Pow10(_)
Pow10(k) == IF k = 0 THEN 1 ELSE 10 * Pow10(k - 1)

\* An unsigned decimal literal: digits, with at most one "." among them.
\* Up to three fraction digits give a whole number of thousandths.
UnsignedDecimal(t) ==
    LET dots == {i \in 1..Len(t) : t[i] = "."} IN
    IF dots = {} THEN IF t # <<>> /\ IsDigits(t) THEN Milli(1000 * DecimalValue(t))
                      ELSE NaN
    ELSE IF Cardinality(dots) > 1 THEN NaN
    ELSE LET d == CHOOSE i \in dots : TRUE
             int == SubSeq(t, 1, d - 1)
             frac == SubSeq(t, d + 1, Len(t))
             k == Len(frac)
         IN  IF ~IsDigits(int) \/ ~IsDigits(frac) \/ Len(t) = 1 THEN NaN
             ELSE IF k <= 3
             THEN Milli(1000 * DecimalValue(int) + Pow10(3 - k) * DecimalValue(frac))
             ELSE Rat(Pow10(k) * DecimalValue(int) + DecimalValue(frac), Pow10(k))

\* StringToNumber: white space is trimmed, the empty string is 0, a decimal
\* literal with an optional sign is its value, anything else is NaN
\* (exponents, hexadecimal literals and Infinity are not among the inputs).
StringToNumber(s) ==
    LET t == Trim(s) IN
    IF t = <<>> THEN Milli(0)
    ELSE IF Head(t) \in {"-", "+"}
    THEN LET u == UnsignedDecimal(Tail(t)) IN
         IF u.nan THEN NaN
         ELSE IF Head(t) = "-" THEN Rat(0 - u.num, u.den) ELSE u
    ELSE UnsignedDecimal(t)

\* Number(v)
ToNumber(v) ==
    CASE v.t = "undefined" -> NaN
      [] v.t = "null" -> Milli(0)
      [] v.t = "boolean" -> Milli(1000 * v.m)
      [] v.t = "number" -> Milli(v.m)
      [] v.t = "string" -> StringToNumber(v.s)
      [] v.t = "object" -> NaN

\* !v
JsFalsy(v) ==
    \/ v.t \in {"undefined", "null"}
    \/ v.t = "boolean" /\ v.m = 0
    \/ v.t = "number" /\ v.m = 0
    \/ v.t = "string" /\ v.s = <<>>

\* Math.floor in the place of Math.round.
MathRoundTruncating(num, den) == num \div den

\* Math.round(num / den), den > 0: the nearest integer, a half rounding
\* towards +Infinity.
MathRound(num, den) == (2 * num + den) \div (2 * den)

\* Math.round(x)
Round(x) == IF x.nan THEN NaN ELSE Rat(MathRound(x.num, x.den), 1)

-----------------------------------------------------------------------------
(* Requests, provider calls and responses *)

NoReq ==
    [name |-> Undefined, phone |-> Undefined, amount |-> JsUndefined,
     razorpay_order_id |-> Undefined, razorpay_payment_id |-> Undefined,
     razorpay_signature |-> Undefined,
     razorpay_payment_link_id |-> Undefined,
     razorpay_payment_link_reference_id |-> Undefined,
     razorpay_payment_link_status |-> Undefined]

None == <<>>
Some(x) == <<x>>

\* A response that has not been sent: status 0.
NoRes ==
    [status |-> 0, success |-> "unset", error |-> "", details |-> "",
     order_id |-> Undefined, payment_id |-> Undefined, amount |-> None,
     currency |-> "", key_id |-> FALSE, name |-> Undefined, phone |-> Undefined,
     payment_link_url |-> "", pstatus |-> "", services |-> <<>>]

Status(code) == [NoRes EXCEPT !.status = code]

Json(code, fields) ==
    [f \in DOMAIN NoRes |->
        IF f = "status" THEN code
        ELSE IF f \in DOMAIN fields THEN fields[f] ELSE NoRes[f]]

IdlePay ==
    [ep |-> "", req |-> NoReq, pc |-> "idle", calls |-> <<>>, res |-> NoRes,
     upstream |-> "", tampered |-> FALSE]

\* The handler has returned or thrown: its response, if any, is in res.
Done(ep, req, calls, res) ==
    [ep |-> ep, req |-> req, pc |-> "done", calls |-> calls, res |-> res,
     upstream |-> "", tampered |-> FALSE]

\* The handler is suspended at its await of a provider call.
Awaiting(ep, req, call) ==
    [ep |-> ep, req |-> req, pc |-> "await", calls |-> <<call>>, res |-> NoRes,
     upstream |-> "", tampered |-> FALSE]

\* An exception that leaves an async handler: Express 4 sends nothing (the
\* rejection is unhandled), Express 5 hands it to the default error handler,
\* which answers 500.
UncaughtStatuses == {0, 500}

-----------------------------------------------------------------------------
(* index.js: configuration and helpers *)

KeySecrets == {"k1"}
NoSecret == "\\unset"

\* RAZORPAY_KEY_ID and RAZORPAY_KEY_SECRET.  new Razorpay() throws at start-up
\* when the key id is given without the secret, so that server never serves.
Configs ==
    {[keyId |-> TRUE, keySecret |-> "k1"],
     [keyId |-> FALSE, keySecret |-> "k1"],
     [keyId |-> FALSE, keySecret |-> NoSecret]}

\* const razorpay = process.env.RAZORPAY_KEY_ID ? new Razorpay(...) : null
razorpay == cfg.keyId

\* crypto.createHmac("sha256", key).update(payload).digest("hex"), taken as
\* an ideal keyed hash: the digest is determined by, and determines, the key
\* and the payload.
HmacDigest(key, payload) == <<"hmac", key>> \o payload

\* function hmacSha256(payload); createHmac throws a TypeError when the key
\* is undefined, which callers see as Throws.
hmacSha256(payload) == HmacDigest(cfg.keySecret, payload)
hmacSha256Throws == cfg.keySecret = NoSecret

NullResult(res) ==
    [kind |-> "null", res |-> res, name |-> <<>>, phone |-> <<>>, amountInPaise |-> 0]

\* function validatePaymentInput(body, res): "null" with the 400 it sent,
\* "parsed" with the values, or "throw" when trim is not a function of a
\* truthy non-string name or phone.
validatePaymentInput(body) ==
    IF Falsy(body.name) \/ Falsy(body.phone) \/ JsFalsy(body.amount)
    THEN NullResult(Json(400, [error |-> "name, phone and amount are required"]))
    ELSE LET amountInPaise == Round(Times(ToNumber(body.amount), 100)) IN
         IF IsNaN(amountInPaise) \/ amountInPaise.num < 100
         THEN NullResult(Json(400, [error |-> "Amount must be at least Rs 1"]))
         ELSE IF body.name = NonString \/ body.phone = NonString
         THEN [NullResult(NoRes) EXCEPT !.kind = "throw"]
         ELSE [kind |-> "parsed", res |-> NoRes, name |-> Trim(body.name),
               phone |-> Trim(body.phone), amountInPaise |-> amountInPaise.num]

NotConfigured == Json(503, [error |-> "Payment service not configured"])
NotConfiguredVerify ==
    Json(503, [success |-> "false", error |-> "Payment service not configured"])

ProviderCall(api, amount, name, phone, id) ==
    [api |-> api, amount |-> amount, name |-> name, phone |-> phone, id |-> id]

\* The part of a create handler before its await: the 503, the validation
\* and the provider call it starts.
CreateStart(ep, api, req) ==
    IF ~razorpay THEN {Done(ep, req, <<>>, NotConfigured)}
    ELSE LET parsed == validatePaymentInput(req) IN
         CASE parsed.kind = "null" -> {Done(ep, req, <<>>, parsed.res)}
           [] parsed.kind = "throw" ->
                {Done(ep, req, <<>>, Status(s)) : s \in UncaughtStatuses}
           [] parsed.kind = "parsed" ->
                {Awaiting(ep, req, ProviderCall(api, parsed.amountInPaise,
                                                parsed.name, parsed.phone, Undefined))}

\* The handler with the "|" left out of the signed payload.
VerifyOrderPaymentRunNoSeparator(req) ==
    IF Falsy(req.razorpay_order_id) \/ Falsy(req.razorpay_payment_id)
       \/ Falsy(req.razorpay_signature)
    THEN {Json(400, [success |-> "false", error |-> "Missing payment parameters"])}
    ELSE IF hmacSha256Throws THEN {Status(s) : s \in UncaughtStatuses}
    ELSE IF hmacSha256(req.razorpay_order_id \o req.razorpay_payment_id)
            # req.razorpay_signature
    THEN {Json(400, [success |-> "false", error |-> "Invalid payment signature"])}
    ELSE {Json(200, [success |-> "true",
                     payment_id |-> req.razorpay_payment_id,
                     order_id |-> req.razorpay_order_id,
                     amount |-> Some(DivideBy(ToNumber(req.amount), 100)),
                     name |-> IF Falsy(req.name) THEN <<>> ELSE req.name,
                     phone |-> IF Falsy(req.phone) THEN <<>> ELSE req.phone])}

\* POST /api/verify-order-payment: the handler has no await, so it runs to
\* its response (or its exception) in one step.
VerifyOrderPaymentRun(req) ==
    IF Falsy(req.razorpay_order_id) \/ Falsy(req.razorpay_payment_id)
       \/ Falsy(req.razorpay_signature)
    THEN {Json(400, [success |-> "false", error |-> "Missing payment parameters"])}
    ELSE IF hmacSha256Throws THEN {Status(s) : s \in UncaughtStatuses}
    ELSE LET expected ==
                 hmacSha256(req.razorpay_order_id \o <<"|">> \o req.razorpay_payment_id)
         IN  IF expected # req.razorpay_signature
             THEN {Json(400, [success |-> "false", error |-> "Invalid payment signature"])}
             ELSE {Json(200, [success |-> "true",
                              payment_id |-> req.razorpay_payment_id,
                              order_id |-> req.razorpay_order_id,
                              amount |-> Some(DivideBy(ToNumber(req.amount), 100)),
                              name |-> IF Falsy(req.name) THEN <<>> ELSE req.name,
                              phone |-> IF Falsy(req.phone) THEN <<>> ELSE req.phone])}

\* The handler with the payment id signed first instead of last.
VerifyPaymentStartPaymentIdFirst(req) ==
    LET ep == "verify-payment" IN
    IF Falsy(req.razorpay_payment_id) \/ Falsy(req.razorpay_payment_link_id)
       \/ Falsy(req.razorpay_signature)
    THEN {Done(ep, req, <<>>,
               Json(400, [success |-> "false", error |-> "Missing payment parameters"]))}
    ELSE IF ~razorpay THEN {Done(ep, req, <<>>, NotConfiguredVerify)}
    ELSE IF hmacSha256(Join(<<req.razorpay_payment_id,
                              req.razorpay_payment_link_id,
                              req.razorpay_payment_link_reference_id,
                              req.razorpay_payment_link_status>>, <<"|">>))
            # req.razorpay_signature
    THEN {Done(ep, req, <<>>,
               Json(400, [success |-> "false", error |-> "Invalid payment signature"]))}
    ELSE {Awaiting(ep, req, ProviderCall("payments.fetch", 0, Undefined,
                                         Undefined, req.razorpay_payment_id))}

\* GET /api/verify-payment up to its await of payments.fetch.
VerifyPaymentStart(req) ==
    LET ep == "verify-payment" IN
    IF Falsy(req.razorpay_payment_id) \/ Falsy(req.razorpay_payment_link_id)
       \/ Falsy(req.razorpay_signature)
    THEN {Done(ep, req, <<>>,
               Json(400, [success |-> "false", error |-> "Missing payment parameters"]))}
    ELSE IF ~razorpay THEN {Done(ep, req, <<>>, NotConfiguredVerify)}
    ELSE IF hmacSha256Throws
    THEN {Done(ep, req, <<>>, Status(s)) : s \in UncaughtStatuses}
    ELSE LET payload == Join(<<req.razorpay_payment_link_id,
                               req.razorpay_payment_link_reference_id,
                               req.razorpay_payment_link_status,
                               req.razorpay_payment_id>>, <<"|">>)
         IN  IF hmacSha256(payload) # req.razorpay_signature
             THEN {Done(ep, req, <<>>,
                        Json(400, [success |-> "false",
                                   error |-> "Invalid payment signature"]))}
             ELSE {Awaiting(ep, req, ProviderCall("payments.fetch", 0, Undefined,
                                                  Undefined, req.razorpay_payment_id))}

-----------------------------------------------------------------------------
(* Inputs *)

NameAlphabet == {" ", "A"}
Names == Strs(NameAlphabet, MaxNameLen) \cup {Undefined, NonString}

AmountFractions == {0, 4, 5, 494, 495, 500, 994, 995, 996}
AmountStrAlphabet == {"1", " ", "x"}
Amounts ==
    {JsNum(r * 1000 + f) : r \in (-1)..MaxRupees, f \in AmountFractions}
    \cup {JsStr(str) : str \in Strs(AmountStrAlphabet, MaxAmtStrLen)}
    \cup {JsUndefined, JsNull, JsBool(TRUE), JsBool(FALSE), JsObject}

CreateRequests ==
    {[NoReq EXCEPT !.name = n, !.phone = ph, !.amount = a] :
        n \in Names, ph \in Names, a \in Amounts}

IdAlphabet == {"a", "|"}
IdStrs == Strs(IdAlphabet, MaxIdLen)
Ids == IdStrs \cup {Undefined}
Refs == Strs(IdAlphabet, MaxRefLen) \cup {Undefined}

AttackerKeys == {"k1", "k2"}
Garbage == <<"g">>

\* How a caller may sign: with either key over one of several payloads, or
\* with junk, the empty string, or nothing.
SignatureChoices ==
    (AttackerKeys \X {"documented", "swapped", "unseparated", "first"})
    \cup {<<"", "junk">>, <<"", "empty">>, <<"", "missing">>}

Signature(choice, payloads) ==
    CASE choice[2] = "junk" -> Garbage
      [] choice[2] = "empty" -> <<>>
      [] choice[2] = "missing" -> Undefined
      [] OTHER -> HmacDigest(choice[1], payloads[choice[2]])

\* Payloads a caller may sign in the order flow for given ids: the documented
\* one, the ids swapped, the ids without the separator, the order id alone.
OrderPayloads(o, p) ==
    [documented |-> JoinStr(o) \o <<"|">> \o JoinStr(p),
     swapped |-> JoinStr(p) \o <<"|">> \o JoinStr(o),
     unseparated |-> JoinStr(o) \o JoinStr(p),
     first |-> JoinStr(o)]

\* What the booking form echoes with a verification: name, phone and the
\* order amount in paise.
VerifyExtras ==
    {<<Undefined, Undefined, JsUndefined>>,
     <<<<"A">>, <<"9">>, JsNum(50000 * 1000)>>}

VerifyOrderRequests ==
    {[NoReq EXCEPT !.razorpay_order_id = o, !.razorpay_payment_id = p,
                   !.razorpay_signature = Signature(ch, OrderPayloads(o, p)),
                   !.name = x[1], !.phone = x[2], !.amount = x[3]] :
        o \in Ids, p \in Ids, ch \in SignatureChoices, x \in VerifyExtras}

\* Payloads a caller may sign in the link flow for given fields: the
\* documented one, the payment id moved to the front, the fields without
\* the separator, the link id alone.
LinkPayloads(l, r, st, p) ==
    [documented |-> Join(<<l, r, st, p>>, <<"|">>),
     swapped |-> Join(<<p, l, r, st>>, <<"|">>),
     unseparated |-> Join(<<l, r, st, p>>, <<>>),
     first |-> JoinStr(l)]

VerifyPaymentRequests ==
    {[NoReq EXCEPT !.razorpay_payment_link_id = l,
                   !.razorpay_payment_link_reference_id = r,
                   !.razorpay_payment_link_status = st,
                   !.razorpay_payment_id = p,
                   !.razorpay_signature = Signature(ch, LinkPayloads(l, r, st, p))] :
        l \in Ids, r \in Refs, st \in Refs, p \in Ids, ch \in SignatureChoices}

\* The priced services of GET /api/form-data.
Service(id, name, price) == [id |-> id, name |-> name, price |-> price]
Services ==
    <<Service("sv1", "Classic Haircut", 300), Service("sv2", "Premium Haircut", 500),
      Service("sv3", "Global Hair Colour", 1500), Service("sv4", "Balayage", 3500),
      Service("sv5", "Keratin Smoothening", 4000), Service("sv6", "Blow Dry", 400),
      Service("sv7", "Beard Shaping", 200), Service("sv8", "Hair Spa", 800),
      Service("sv9", "Scalp Detox", 1200), Service("sv10", "Full Body Waxing", 1800)>>

\* What the provider may answer.
ProviderOrderIds == {<<"o", "1">>}
ProviderErrors == {"upstream failure"}
ProviderPayments ==
    {[amount |-> 50000, currency |-> "INR", notes |-> nt, status |-> "captured"] :
        nt \in {<<>>, <<[customer_name |-> <<"A">>, customer_phone |-> <<"9">>]>>}}

-----------------------------------------------------------------------------
(* The Visit collection and the analytics queries *)

\* String.prototype.split(sep) for a one-character separator.
RECURSIVE Split(_, _)
Split(s, sep) ==
    IF \A i \in 1..Len(s) : s[i] # sep THEN <<s>>
    ELSE LET k == CHOOSE i \in 1..Len(s) :
                      s[i] = sep /\ \A j \in 1..(i - 1) : s[j] # sep
         IN  <<SubSeq(s, 1, k - 1)>> \o Split(SubSeq(s, k + 1, Len(s)), sep)

\* s.split(sep).map(Number), destructured into n names: a part that is
\* missing is undefined.
SplitNumbers(s, sep, n) ==
    LET parts == Split(s, sep) IN
    [i \in 1..n |-> IF i <= Len(parts) THEN StringToNumber(parts[i]) ELSE NaN]

\* Days from 1970-01-01 to the first day of month index mi (0 = January,
\* any integer) of year y, in the proleptic Gregorian calendar.
DaysToMonth(y, mi) ==
    LET yy == y + (mi \div 12)
        m == (mi % 12) + 1
        ys == IF m <= 2 THEN yy - 1 ELSE yy
        era == ys \div 400
        yoe == ys - era * 400
        mp == IF m > 2 THEN m - 3 ELSE m + 9
        doy == (153 * mp + 2) \div 5
        doe == yoe * 365 + (yoe \div 4) - (yoe \div 100) + doy
    IN  era * 146097 + doe - 719468

InvalidDate == [valid |-> FALSE, day |-> 0, ms |-> 0]

\* new Date(y, mi, d, h, min, s, ms) in local time, the time of day given in
\* milliseconds: a day and the millisecond of that day.  A NaN component
\* makes an Invalid Date; a year 0..99 means 1900 + year; a day or month out
\* of range carries over.
LocalDate(y, mi, d, msOfDay) ==
    IF y.nan \/ mi.nan \/ d.nan THEN InvalidDate
    ELSE LET year == IF y.num \div y.den \in 0..99 THEN 1900 + y.num \div y.den
                     ELSE y.num \div y.den
         IN  [valid |-> TRUE,
              day |-> DaysToMonth(year, mi.num \div mi.den) + (d.num \div d.den) - 1,
              ms |-> msOfDay]

EndOfDayMs == 23 * 3600000 + 59 * 60000 + 59 * 1000 + 999

\* a <= b for valid dates
DateLeq(a, b) == a.day < b.day \/ (a.day = b.day /\ a.ms <= b.ms)

\* new Date(): the moment a request is served, a local calendar date.
Now == [year |-> 2026, month |-> 10, date |-> 2]

Minus(x, k) == IF x.nan THEN NaN ELSE Rat(x.num - k * x.den, x.den)

\* The range from local midnight of query.from, or of the first of this
\* month, to millisecond endMs of the day of query.to, or of today.
DateRange(query, endMs) ==
    LET f == SplitNumbers(query.from, "-", 3)
        t == SplitNumbers(query.to, "-", 3)
    IN  [gte |-> IF ~Falsy(query.from)
                 THEN LocalDate(f[1], Minus(f[2], 1), f[3], 0)
                 ELSE LocalDate(Rat(Now.year, 1), Rat(Now.month, 1), Rat(1, 1), 0),
         lte |-> IF ~Falsy(query.to)
                 THEN LocalDate(t[1], Minus(t[2], 1), t[3], endMs)
                 ELSE LocalDate(Rat(Now.year, 1), Rat(Now.month, 1), Rat(Now.date, 1),
                                endMs)]

\* dateFilter with the end of the range at local midnight of query.to.
dateFilterToMidnight(query) == DateRange(query, 0)

\* function dateFilter(query): the range ends at 23:59:59.999.
dateFilter(query) == DateRange(query, EndOfDayMs)

\* A filter mongoose can cast: both ends are valid dates.
Castable(match) == match.gte.valid /\ match.lte.valid

\* Decimal digits of n, padded with zeros to width w.
RECURSIVE Pad(_, _)
Pad(n, w) ==
    IF w = 0 THEN <<>>
    ELSE Pad(n \div 10, w - 1)
         \o <<CHOOSE c \in {"0", "1", "2", "3", "4", "5", "6", "7", "8", "9"} :
                  DigitVal(c) = n % 10>>

\* "YYYY-MM-DD"
IsoDate(y, m, d) == Pad(y, 4) \o <<"-">> \o Pad(m, 2) \o <<"-">> \o Pad(d, 2)

\* A priced service of a visit, and a Visit document (models/Visit.js).
Item(name, price) == [name |-> name, price |-> price]

Customer(name, contact, age, gender) ==
    [name |-> name, contact |-> contact, age |-> age, gender |-> gender]

Sum(f, S) == LET RECURSIVE Acc(_)
                 Acc(T) == IF T = {} THEN 0
                           ELSE LET x == CHOOSE x \in T : TRUE
                                IN  f[x] + Acc(T \ {x})
             IN  Acc(S)

SumPrices(services) == Sum([i \in DOMAIN services |-> services[i].price], DOMAIN services)

\* A visit as seed.js generates it: the discount is rounded to a rupee and
\* taken off the subtotal.
Visit(customer, artist, date, startTime, endTime, services, discountPercent) ==
    LET subtotal == SumPrices(services)
        discountAmount == MathRound(subtotal * discountPercent, 100)
    IN  [name |-> customer.name, contact |-> customer.contact,
         age |-> customer.age, gender |-> customer.gender,
         date |-> date, startTime |-> startTime, endTime |-> endTime,
         artist |-> artist, serviceType |-> "Hair", services |-> services,
         filledBy |-> "Owner", subtotal |-> subtotal,
         discountPercent |-> discountPercent, discountAmount |-> discountAmount,
         finalTotal |-> subtotal - discountAmount,
         paymentStatus |-> "success", razorpayPaymentId |-> "pay_1"]

Aarav == Customer("Aarav Sharma", "9876543210", 28, "Male")
Ishita == Customer("Ishita Patel", "9876543211", 24, "Female")
Rohan == Customer("Rohan Gupta", "9876543212", 35, "Male")

HaircutMen == Item("Haircut (Men)", 300)
HairSpa == Item("Hair Spa", 800)
Threading == Item("Threading", 50)

\* A stored date: day d of the month of Now, at millisecond ms of that day.
StoredDate(d, ms) ==
    [valid |-> TRUE, day |-> DaysToMonth(Now.year, Now.month) + d - 1, ms |-> ms]

\* "HH:mm"
Time(h, m) == Pad(h, 2) \o <<":">> \o Pad(m, 2)

\* The visits a collection is drawn from: on both sides of each end of the
\* ranges asked for, at the first and the last millisecond of a day; one
\* ends before it starts, as generateVisit makes it for 09:30 and 30 minutes.
VisitPool ==
    {Visit(Aarav, "Rahul", StoredDate(1, 0), Time(9, 0), Time(9, 30),
           <<HaircutMen>>, 0),
     Visit(Aarav, "Priya", StoredDate(1, EndOfDayMs), Time(10, 0), Time(11, 30),
           <<HairSpa, HaircutMen>>, 10),
     Visit(Ishita, "Rahul", StoredDate(2, 0), Time(9, 30), Time(9, 0),
           <<HairSpa, Threading>>, 0),
     Visit(Rohan, "Amit", StoredDate(2, EndOfDayMs), Time(12, 0), Time(12, 40),
           <<Threading, HairSpa>>, 0),
     Visit(Ishita, "Priya", StoredDate(0, EndOfDayMs), Time(9, 0), Time(9, 30),
           <<HaircutMen>>, 0),
     Visit(Rohan, "Amit", StoredDate(3, 0), Time(11, 0), Time(11, 30),
           <<Threading>>, 5)}

\* Collections of up to n visits, in stored order.
StoresUpTo(n) == UNION {[1..k -> VisitPool] : k \in 0..n}

\* Collections the seed script may have left in the store.
VisitStores ==
    {<<>>,
     <<Visit(Aarav, "Rahul", StoredDate(1, 0), Time(9, 0), Time(9, 30),
             <<HaircutMen>>, 0)>>,
     <<Visit(Aarav, "Rahul", StoredDate(1, 0), Time(9, 0), Time(9, 30),
             <<HaircutMen>>, 0),
       Visit(Ishita, "Priya", StoredDate(2, 0), Time(17, 30), Time(20, 0),
             <<HairSpa>>, 0)>>}

\* req.query.from / req.query.to: absent, a date of this month, or no date;
\* req.params.name for /employee/:name.
Malformed == <<"x">>
ArtistNames == {"Rahul", "Priya", "Vikram"}
SampleQueries ==
    {[from |-> f, to |-> t, name |-> "Rahul"] :
        f \in {Undefined, IsoDate(Now.year, Now.month + 1, 2)},
        t \in {Undefined}}

Queries ==
    {[from |-> f, to |-> t, name |-> ""] :
        f \in {Undefined, IsoDate(Now.year, Now.month + 1, 2), Malformed},
        t \in {Undefined, IsoDate(Now.year, Now.month + 1, 1)}}

\* The same with the :name of /employee/:name.
EmployeeQueries ==
    {[q EXCEPT !.name = n] : q \in Queries, n \in ArtistNames}

\* Visit.find(match) / Visit.aggregate([{ $match: match }, ...]): the
\* stored visits whose date is in the range, in stored order.  A read.
RECURSIVE Find(_, _)
Find(store, match) ==
    IF store = <<>> THEN <<>>
    ELSE LET v == Head(store) IN
         (IF DateLeq(match.gte, v.date) /\ DateLeq(v.date, match.lte)
          THEN <<v>> ELSE <<>>)
         \o Find(Tail(store), match)

\* The distinct values of a sequence in the order they first appear: the
\* keys of an object filled in that order.
RECURSIVE FirstSeen(_)
FirstSeen(s) ==
    IF s = <<>> THEN <<>>
    ELSE LET init == FirstSeen(SubSeq(s, 1, Len(s) - 1))
             x == s[Len(s)]
         IN  IF \E i \in 1..Len(init) : init[i] = x THEN init ELSE Append(init, x)

\* Array.prototype.sort((a, b) => b[key] - a[key]): stable, descending.
RECURSIVE SortDesc(_, _)
SortDesc(s, key) ==
    IF s = <<>> THEN <<>>
    ELSE LET rest == SortDesc(SubSeq(s, 1, Len(s) - 1), key)
             x == s[Len(s)]
             \* x goes after every element that is not smaller than it
             n == Cardinality({i \in 1..Len(rest) : rest[i][key] >= x[key]})
         IN  SubSeq(rest, 1, n) \o <<x>> \o SubSeq(rest, n + 1, Len(rest))

\* function calcHours without its Math.max: the signed difference.
calcHoursSigned(startTime, endTime) ==
    LET s == SplitNumbers(startTime, ":", 2)
        e == SplitNumbers(endTime, ":", 2)
    IN  ((e[1].num \div e[1].den) * 60 + (e[2].num \div e[2].den))
        - ((s[1].num \div s[1].den) * 60 + (s[2].num \div s[2].den))

\* function calcHours(startTime, endTime), in minutes: the difference of
\* the two "HH:mm" times, never negative.
calcHours(startTime, endTime) ==
    LET s == SplitNumbers(startTime, ":", 2)
        e == SplitNumbers(endTime, ":", 2)
        diff == ((e[1].num \div e[1].den) * 60 + (e[2].num \div e[2].den))
                - ((s[1].num \div s[1].den) * 60 + (s[2].num \div s[2].den))
    IN  IF diff > 0 THEN diff ELSE 0

SumOver(s, F(_)) == Sum([i \in DOMAIN s |-> F(s[i])], DOMAIN s)

FinalTotal(v) == v.finalTotal
Minutes(v) == calcHours(v.startTime, v.endTime)
Contacts(vs) == {vs[i].contact : i \in DOMAIN vs}

\* Math.round(hours * 10) / 10 for a time given in minutes, in tenths of an
\* hour.
RoundTenths(minutes) == Rat(MathRound(minutes * 10, 60), 10)

\* GET /summary
SummaryBody(found) ==
    LET totalRevenue == SumOver(found, FinalTotal)
        totalVisits == Len(found)
    IN  [totalRevenue |-> totalRevenue,
         totalVisits |-> totalVisits,
         uniqueCustomers |-> Cardinality(Contacts(found)),
         avgTicket |-> IF totalVisits > 0 THEN MathRound(totalRevenue, totalVisits)
                       ELSE 0]

ByArtist(found, artist) == LET Of(v) == v.artist = artist IN SelectSeq(found, Of)

\* The leaderboard's entry of each artist, in the order the artists first
\* appear among the visits.
LeaderboardEntries(found) ==
    LET names == FirstSeen([i \in DOMAIN found |-> found[i].artist])
    IN  [i \in DOMAIN names |->
            LET vs == ByArtist(found, names[i]) IN
            [name |-> names[i],
             customersServed |-> Len(vs),
             uniqueCustomers |-> Cardinality(Contacts(vs)),
             revenue |-> MathRound(SumOver(vs, FinalTotal), 1),
             hoursWorked |-> RoundTenths(SumOver(vs, Minutes))]]

\* .map((e, i) => ({ rank: i + 1, ...e }))
Ranked(entries) ==
    [i \in DOMAIN entries |->
        [rank |-> i, name |-> entries[i].name,
         customersServed |-> entries[i].customersServed,
         uniqueCustomers |-> entries[i].uniqueCustomers,
         revenue |-> entries[i].revenue,
         hoursWorked |-> entries[i].hoursWorked]]

\* The leaderboard without its sort: ranked in order of first appearance.
LeaderboardUnsorted(found) == Ranked(LeaderboardEntries(found))

\* GET /employees: the entries sorted by revenue, ranked by position.
Leaderboard(found) == Ranked(SortDesc(LeaderboardEntries(found), "revenue"))

\* { $unwind: "$services" }: the service entries of the visits, in order.
RECURSIVE Unwind(_)
Unwind(found) ==
    IF found = <<>> THEN <<>> ELSE Head(found).services \o Unwind(Tail(found))

\* Count and revenue of one service name among service entries.
ServiceGroup(items, name) ==
    LET Named(it) == it.name = name
        Price(it) == it.price
        its == SelectSeq(items, Named)
    IN  [service |-> name, count |-> Len(its), revenue |-> SumOver(its, Price)]

\* The orders $sort: { count: -1 } may return a set of groups in: documents
\* with equal counts come in any order.
SortedByCount(groups) ==
    {s \in [1..Cardinality(groups) -> groups] :
        /\ \A i, j \in DOMAIN s : i # j => s[i] # s[j]
        /\ \A i \in 1..(Len(s) - 1) : s[i].count >= s[i + 1].count}

\* Groups in any order: the pipeline without its $sort stage.
TopServicesUnsorted(found) ==
    LET items == Unwind(found)
        groups == {ServiceGroup(items, items[i].name) : i \in DOMAIN items}
    IN  {s \in [1..Cardinality(groups) -> groups] :
            \A i, j \in DOMAIN s : i # j => s[i] # s[j]}

\* GET /top-services: the results the aggregation may give.
TopServices(found) ==
    LET items == Unwind(found)
    IN  SortedByCount({ServiceGroup(items, items[i].name) : i \in DOMAIN items})


Take(s, n) == SubSeq(s, 1, IF Len(s) < n THEN Len(s) ELSE n)

\* The stats of an artist with at least one visit among those found.
EmployeeStats(found, artistName) ==
    LET artistVisits == ByArtist(found, artistName)
        items == Unwind(artistVisits)
        svcNames == FirstSeen([i \in DOMAIN items |-> items[i].name])
        revenue == SumOver(artistVisits, FinalTotal)
        peers == FirstSeen([i \in DOMAIN found |-> found[i].artist])
        sorted == SortDesc([i \in DOMAIN peers |->
                               [name |-> peers[i],
                                revenue |-> SumOver(ByArtist(found, peers[i]), FinalTotal)]],
                           "revenue")
    IN  [name |-> artistName,
         customersServed |-> Len(artistVisits),
         uniqueCustomers |-> Cardinality(Contacts(artistVisits)),
         revenue |-> MathRound(revenue, 1),
         hoursWorked |-> RoundTenths(SumOver(artistVisits, Minutes)),
         avgRevenuePerVisit |-> MathRound(revenue, Len(artistVisits)),
         topServices |->
             Take(SortDesc([i \in DOMAIN svcNames |->
                               ServiceGroup(items, svcNames[i])], "count"), 5),
         rank |-> CHOOSE i \in DOMAIN sorted : sorted[i].name = artistName,
         totalArtists |-> Len(sorted)]

\* The all-zero record of lines 201-211.
NoVisitsBody(artistName) ==
    [name |-> artistName, customersServed |-> 0, uniqueCustomers |-> 0,
     revenue |-> 0, hoursWorked |-> Rat(0, 10), avgRevenuePerVisit |-> 0,
     topServices |-> <<>>, rank |-> 0, totalArtists |-> 0]

\* An artist without visits placed behind the artists that have some.
EmployeeBodyRankedLast(found, artistName) ==
    IF Len(ByArtist(found, artistName)) = 0
    THEN LET n == Len(FirstSeen([i \in DOMAIN found |-> found[i].artist]))
         IN  [NoVisitsBody(artistName) EXCEPT !.rank = n + 1, !.totalArtists = n]
    ELSE EmployeeStats(found, artistName)

\* GET /employee/:name
EmployeeBody(found, artistName) ==
    IF Len(ByArtist(found, artistName)) = 0 THEN NoVisitsBody(artistName)
    ELSE EmployeeStats(found, artistName)

\* { $round: [num / den, 0] } of MongoDB: the nearest integer, a half
\* rounding to the even neighbour.
RoundHalfEven(num, den) ==
    LET q == num \div den
        r == num % den
    IN  IF 2 * r < den THEN q
        ELSE IF 2 * r > den THEN q + 1
        ELSE IF q % 2 = 0 THEN q ELSE q + 1

VisitsOf(found, contact) ==
    Cardinality({i \in DOMAIN found : found[i].contact = contact})

\* The pipeline with $gte in the place of $gt in its repeatCustomers sum.
RepeatStatsFromOneVisit(found, total) ==
    LET customers == Contacts(found)
        repeat == Cardinality({c \in customers : VisitsOf(found, c) >= 1})
        new == Cardinality({c \in customers : VisitsOf(found, c) = 1})
    IN  IF customers = {}
        THEN [totalCustomers |-> 0, repeatCustomers |-> 0, newCustomers |-> 0,
              repeatRate |-> Rat(0, 10)]
        ELSE [totalCustomers |-> Cardinality(customers), repeatCustomers |-> repeat,
              newCustomers |-> new,
              repeatRate |-> Rat(RoundHalfEven(repeat * 1000, total), 10)]

\* The last stage of the repeat-customers pipeline over the customers of the
\* visits found, the rate taken over total; repeatRate is in tenths of a
\* percent.
RepeatStats(found, total) ==
    LET customers == Contacts(found)
        repeat == Cardinality({c \in customers : VisitsOf(found, c) > 1})
        new == Cardinality({c \in customers : VisitsOf(found, c) = 1})
    IN  IF customers = {}
        THEN [totalCustomers |-> 0, repeatCustomers |-> 0, newCustomers |-> 0,
              repeatRate |-> Rat(0, 10)]
        ELSE [totalCustomers |-> Cardinality(customers), repeatCustomers |-> repeat,
              newCustomers |-> new,
              repeatRate |-> Rat(RoundHalfEven(repeat * 1000, total), 10)]

\* The rate taken over the visits instead of the customers.
RepeatBodyOverVisits(found) == RepeatStats(found, Len(found))

\* GET /repeat-customers
RepeatBody(found) == RepeatStats(found, Cardinality(Contacts(found)))

\* The calendar date of a day number: <<year, month, day>>.
CivilDate(day) ==
    LET z == day + 719468
        era == z \div 146097
        doe == z - era * 146097
        yoe == (doe - (doe \div 1460) + (doe \div 36524) - (doe \div 146096)) \div 365
        doy == doe - (365 * yoe + (yoe \div 4) - (yoe \div 100))
        mp == (5 * doy + 2) \div 153
        d == doy - ((153 * mp + 2) \div 5) + 1
        m == IF mp < 10 THEN mp + 3 ELSE mp - 9
        y == yoe + era * 400 + (IF m <= 2 THEN 1 ELSE 0)
    IN  <<y, m, d>>

RECURSIVE Digits(_)
Digits(n) == IF n < 10 THEN Pad(n, 1) ELSE Digits(n \div 10) \o Pad(n % 10, 1)

\* new Date(date).toLocaleDateString("en-IN"): "d/m/yyyy"
toLocaleDateString(date) ==
    LET c == CivilDate(date.day)
    IN  Digits(c[3]) \o <<"/">> \o Digits(c[2]) \o <<"/">> \o Digits(c[1])

ExportColumns ==
    <<"Date", "Name", "Contact", "Age", "Gender", "Start Time", "End Time",
      "Artist", "Service Type", "Services", "Filled By", "Subtotal",
      "Discount (%)", "Discount (Rs)", "Final Total", "Payment Status",
      "Payment ID">>

\* One flattened row of the export: a value for each of the columns.
ExportRow(v) ==
    [col \in {ExportColumns[i] : i \in DOMAIN ExportColumns} |->
        CASE col = "Date" -> toLocaleDateString(v.date)
          [] col = "Name" -> v.name
          [] col = "Contact" -> v.contact
          [] col = "Age" -> v.age
          [] col = "Gender" -> v.gender
          [] col = "Start Time" -> v.startTime
          [] col = "End Time" -> v.endTime
          [] col = "Artist" -> v.artist
          [] col = "Service Type" -> v.serviceType
          [] col = "Services" ->
                Join([i \in DOMAIN v.services |-> <<v.services[i].name>>], <<", ">>)
          [] col = "Filled By" -> v.filledBy
          [] col = "Subtotal" -> v.subtotal
          [] col = "Discount (%)" -> v.discountPercent
          [] col = "Discount (Rs)" -> v.discountAmount
          [] col = "Final Total" -> v.finalTotal
          [] col = "Payment Status" -> v.paymentStatus
          [] col = "Payment ID" -> v.razorpayPaymentId]

DayKey(v) == [v |-> v, key |-> v.date.day]
MsKey(v) == [v |-> v, key |-> v.date.ms]

\* XLSX.utils.json_to_sheet(rows) without a header option: the columns are
\* the keys of the row objects in the order they first appear, so no rows
\* give no columns; the header row is followed by one row per object.
json_to_sheet(rows, keys) ==
    [header |-> IF rows = <<>> THEN <<>> ELSE keys, data |-> rows]

\* GET /export: the sheet "Salon Visits" of the workbook sent.
ExportBody(found) ==
    LET byMs == SortDesc([i \in DOMAIN found |-> MsKey(found[i])], "key")
        \* .sort({ date: -1 }): by day, within a day by millisecond
        sorted == SortDesc([i \in DOMAIN byMs |-> DayKey(byMs[i].v)], "key")
        rows == [i \in DOMAIN sorted |-> ExportRow(sorted[i].v)]
    IN  [sheets |-> <<[name |-> "Salon Visits",
                       sheet |-> json_to_sheet(rows, ExportColumns)]>>]

\* The routes of the analytics router that query the store, and the message
\* each one's catch sends with its 500.
DataRoutes ==
    {"summary", "top-services", "employees", "employee", "repeat-customers", "export"}

RouteError(route) ==
    CASE route = "summary" -> "Failed to fetch summary"
      [] route = "top-services" -> "Failed to fetch top services"
      [] route = "employees" -> "Failed to fetch employee data"
      [] route = "employee" -> "Failed to fetch employee details"
      [] route = "repeat-customers" -> "Failed to fetch repeat customer data"
      [] route = "export" -> "Failed to export data"

\* The bodies a data route may answer from the visits its query returned.
RouteBodies(route, query, found) ==
    CASE route = "summary" -> {SummaryBody(found)}
      [] route = "top-services" -> TopServices(found)
      [] route = "employees" -> {Leaderboard(found)}
      [] route = "employee" -> {EmployeeBody(found, query.name)}
      [] route = "repeat-customers" -> {RepeatBody(found)}
      [] route = "export" -> {ExportBody(found)}

\* What a data route answers when the store is reachable: its catch's 500
\* when mongoose cannot cast the filter's dates, else 200 with a body.
Answers(route, query, store) ==
    LET match == dateFilter(query) IN
    IF ~Castable(match)
    THEN {[status |-> 500, error |-> RouteError(route),
           details |-> IF route = "summary" THEN "Cast to date failed" ELSE "",
           body |-> <<>>]}
    ELSE {[status |-> 200, error |-> "", details |-> "", body |-> b] :
             b \in RouteBodies(route, query, Find(store, match))}

-----------------------------------------------------------------------------
(* The booking form: frontend hooks/useBookingForm.ts, services/razorpay.ts *)
(* and pages/PaymentStatus.tsx                                             *)

\* dropdownData.services before fetchFormData resolves.
NoServices == <<>>

\* EMPTY_FORM: the fields the hook computes with.  The mount effect has
\* written String(payable), "0", into amount.
EMPTY_FORM ==
    [name |-> <<>>, phone |-> <<>>, amount |-> <<"0">>, age |-> <<>>,
     searchService |-> <<>>, discount |-> <<>>]

\* dropdownData.services.find((s) => s.id === id)?.price ?? 0
PriceOf(services, id) ==
    LET found == {i \in DOMAIN services : services[i].id = id} IN
    IF found = {} THEN 0
    ELSE services[CHOOSE i \in found : \A j \in found : i <= j].price

\* const subtotal: the reduce over formData.searchService
RECURSIVE subtotal(_, _)
subtotal(searchService, services) ==
    IF searchService = <<>> THEN 0
    ELSE PriceOf(services, Head(searchService))
         + subtotal(Tail(searchService), services)

\* const discountPct = Math.min(100, Math.max(0, Number(formData.discount) || 0))
discountPct(discount) ==
    LET n == StringToNumber(discount)
        v == IF n.nan \/ n.num = 0 THEN Rat(0, 1) ELSE n
    IN  IF v.num < 0 THEN Rat(0, 1)
        ELSE IF v.num > 100 * v.den THEN Rat(100, 1)
        ELSE v

\* const discountAmt = Math.round(subtotal * (discountPct / 100))
discountAmt(sub, pct) == MathRound(sub * pct.num, 100 * pct.den)

\* const payable = Math.max(0, subtotal - discountAmt)
payable(sub, pct) ==
    LET rest == sub - discountAmt(sub, pct) IN IF rest < 0 THEN 0 ELSE rest

\* subtotal and payable as a render of the hook computes them.
Subtotal(form, services) == subtotal(form.searchService, services)
Payable(form, services) ==
    payable(Subtotal(form, services), discountPct(form.discount))

\* The effect on [payable]: when a render computes another payable than the
\* render before it, amount becomes String(payable).
Rendered(form, services, before) ==
    LET now == Payable(form, services) IN
    IF now # before /\ form.amount # Digits(now)
    THEN [form EXCEPT !.amount = Digits(now)]
    ELSE form

\* /^[6-9]\d{9}$/.test(str)
IsMobile(str) ==
    /\ Len(str) = 10
    /\ str[1] \in {"6", "7", "8", "9"}
    /\ IsDigits(str)

\* const validate: the fields in error.
validate(form, sub, due) ==
    LET age == StringToNumber(form.age) IN
    {f \in {"name", "phone", "amount", "age"} :
        CASE f = "name" -> Len(Trim(form.name)) < 2
          [] f = "phone" -> ~IsMobile(Trim(form.phone))
          [] f = "amount" -> sub <= 0 \/ due <= 0
          [] f = "age" -> /\ form.age # <<>>
                          /\ (age.nan \/ age.num < age.den \/ age.num > 120 * age.den)}

\* The body handleSubmit gives createOrder when it reads formData.amount,
\* not payable.
OrderRequestFromAmountField(form, due) ==
    [NoReq EXCEPT !.name = Trim(form.name), !.phone = Trim(form.phone),
                  !.amount = LET n == StringToNumber(form.amount) IN
                             IF n.nan THEN JsNull
                             ELSE JsNum((1000 * n.num) \div n.den)]

\* createOrder({ name, phone, amount: payable }) of handleSubmit
OrderRequest(form, due) ==
    [NoReq EXCEPT !.name = Trim(form.name), !.phone = Trim(form.phone),
                  !.amount = JsNum(1000 * due)]

\* function loadRazorpayScript with the getElementById test left out.
loadRazorpayScriptAlwaysInserting(body) ==
    [body |-> Append(body, "loading"), awaits |-> Len(body) + 1]

\* function loadRazorpayScript on a document whose body holds the script
\* elements body (each "loading", "loaded" or "failed"): the body after the
\* call and the element whose load the promise awaits, 0 when the promise
\* is resolved with true at once.
loadRazorpayScript(body) ==
    IF body # <<>> THEN [body |-> body, awaits |-> 0]
    ELSE [body |-> Append(body, "loading"), awaits |-> Len(body) + 1]

\* window.Razorpay is defined once checkout.js has run.
HasRazorpay(body) == \E i \in DOMAIN body : body[i] = "loaded"

\* A handleSubmit invocation that has not returned: the formData and payable
\* of the render it closed over, where it stands, the script element it
\* awaits, the order it was given, what it posted, and whether the hook
\* it belongs to is still mounted.
Invocation(form, due, pc, awaits) ==
    [formData |-> form, payable |-> due, pc |-> pc, awaits |-> awaits,
     request |-> NoReq, order |-> NoRes, mounted |-> TRUE]

\* PaymentStatus: useState("loading"), useState(null)
NoDetails ==
    [success |-> "unset", payment_id |-> Undefined, amount |-> None,
     name |-> Undefined, phone |-> Undefined, pstatus |-> ""]
NotMounted == [state |-> "", details |-> NoDetails, request |-> NoReq]

\* A freshly loaded /booking page.
BookingPageLoads ==
    /\ location = "booking"
    /\ dropdownData = NoServices
    /\ formData = EMPTY_FORM
    /\ isLoading = FALSE
    /\ paymentError = ""
    /\ submits = <<>>
    /\ scripts = <<>>
    /\ paymentStatus = NotMounted
    /\ verified = {}

\* EmployeeDeepDive: the date ranges the dashboard passes as qs, and the
\* names GET /api/analytics/employees answers for each, in leaderboard
\* order; the collection does not change while the widget is shown.
Ranges == {"from=2025-11-01", "from=2025-11-02"}
EmployeesIn(range) ==
    IF range = "from=2025-11-01" THEN <<"Aarav", "Ishita">> ELSE <<"Ishita", "Rohan">>

\* useState<EmployeeDetail | null>(null)
null == [name |-> "", qs |-> ""]

\* The fetches of the two effects.
ListFetch(range) == [kind |-> "list", name |-> "", qs |-> range]
DetailFetch(name, range) == [kind |-> "detail", name |-> name, qs |-> range]

\* EmployeeDeepDive mounts: both effects run, the second finds selected "".
DeepDiveMounts ==
    /\ qs = "from=2025-11-01"
    /\ employees = <<>>
    /\ selected = ""
    /\ data = null
    /\ loading = FALSE
    /\ fetches = <<ListFetch(qs)>>

-----------------------------------------------------------------------------
(* db.js: connectDB, and the requests that await it *)

\* A request slot: kind is "health" (GET /api/health) or "analytics" (any
\* /api/analytics route); pc is where its handler stands; awaits is the
\* attempt whose promise its connectDB call returned, 0 when none.
NoBody == <<>>
NoQuery == [from |-> Undefined, to |-> Undefined, name |-> ""]

IdleCaller == [kind |-> "", pc |-> "idle", awaits |-> 0, err |-> ""]

NoResponse ==
    [kind |-> "", route |-> "", status |-> 0, error |-> "", details |-> "",
     connect |-> "", mongoState |-> 0, queried |-> FALSE,
     query |-> NoQuery, body |-> NoBody]

Response(kind, route, status, fields) ==
    [f \in DOMAIN NoResponse |->
        IF f = "kind" THEN kind
        ELSE IF f = "route" THEN route
        ELSE IF f = "status" THEN status
        ELSE IF f \in DOMAIN fields THEN fields[f] ELSE NoResponse[f]]

\* No health or analytics request is in flight.  A payment request and a
\* database request are never in flight together in this model: the two
\* share no state but the store, which none of them writes.
Quiescent == \A c \in 1..NumCallers : callers[c].pc = "idle"

\* Continuations of settled promises run before any new request or event.
InMicrotasks == \E c \in 1..NumCallers : callers[c].pc \in {"resume", "resolved", "rejected"}

\* connectDB without the check of line 34: every call that gets this far
\* calls mongoose.connect.
ConnectIgnoringCache(k) ==
    IF ~mongoUri
    THEN <<[kind |-> k, awaits |-> 0, pc |-> "rejected",
            err |-> "MONGODB_URI environment variable is not set"],
           readyState, connectionPromise, attempts>>
    ELSE <<[kind |-> k, awaits |-> Len(attempts) + 1, pc |-> "await", err |-> ""],
           2, Len(attempts) + 1, Append(attempts, "pending")>>

\* connectDB from line 33 on, for caller c of kind k: the cached promise if
\* there is one, the throw when no URI is set, else a new mongoose.connect.
\* Gives the new <<callers[c], readyState, connectionPromise, attempts>>.
ConnectFromCache(k) ==
    IF connectionPromise # 0
    THEN <<[kind |-> k, awaits |-> connectionPromise,
            pc |-> CASE attempts[connectionPromise] = "pending" -> "await"
                     [] attempts[connectionPromise] = "fulfilled" -> "resolved"
                     [] attempts[connectionPromise] = "rejected" -> "rejected",
            err |-> IF attempts[connectionPromise] = "rejected"
                    THEN "connect failed" ELSE ""],
           readyState, connectionPromise, attempts>>
    ELSE IF ~mongoUri
    THEN <<[kind |-> k, awaits |-> 0, pc |-> "rejected",
            err |-> "MONGODB_URI environment variable is not set"],
           readyState, connectionPromise, attempts>>
    ELSE <<[kind |-> k, awaits |-> Len(attempts) + 1, pc |-> "await", err |-> ""],
           2, Len(attempts) + 1, Append(attempts, "pending")>>

\* async function connectDB() up to its first suspension.
ConnectDB(k) ==
    IF readyState = 1
    THEN <<[kind |-> k, awaits |-> 0, pc |-> "resolved", err |-> ""],
           readyState, connectionPromise, attempts>>
    ELSE IF readyState = 3
    THEN <<[kind |-> k, awaits |-> 0, pc |-> "waitDisconnected", err |-> ""],
           readyState, connectionPromise, attempts>>
    ELSE ConnectFromCache(k)

\* mongoose.connect can be called again only below the model's bound.
CanConnect == Len(attempts) < MaxAttempts

StartsAttempt(next) == next[4] # attempts

-----------------------------------------------------------------------------
(* PaySpec: the payment endpoints *)

\* index.js line 23 calls connectDB() while the module loads: with a URI
\* the first mongoose.connect is already in flight when the server starts
\* to serve, without one the call has thrown and the error was logged.
DbBoot(uri) ==
    /\ mongoUri = uri
    /\ readyState = IF uri THEN 2 ELSE 0
    /\ connectionPromise = IF uri THEN 1 ELSE 0
    /\ attempts = IF uri THEN <<"pending">> ELSE <<>>
    /\ callers = [c \in 1..NumCallers |-> IdleCaller]
    /\ last = NoResponse

PayInit ==
    /\ BookingPageLoads
    /\ DeepDiveMounts
    /\ cfg \in Configs
    /\ pay = IdlePay
    /\ DbBoot(TRUE)
    /\ visits = <<>>

\* POST /api/create-order arrives and runs to its response or to its await.
CreateOrder(requests) ==
    /\ pay.pc = "idle" /\ Quiescent
    /\ \E req \in requests :
           pay' \in CreateStart("create-order", "orders.create", req)
    /\ UNCHANGED <<clientVars, cfg, dbVars, visits>>

\* razorpay.orders.create resolves: the provider's order carries the amount
\* and currency it was asked for.
OrdersCreateResolves(id) ==
    /\ pay.pc = "await" /\ pay.ep = "create-order"
    /\ LET call == pay.calls[1]
           order == [id |-> id, amount |-> call.amount, currency |-> "INR"]
       IN  pay' = [pay EXCEPT !.pc = "done",
                              !.res = Json(200, [order_id |-> order.id,
                                                 amount |-> Some(Rat(order.amount, 1)),
                                                 currency |-> order.currency,
                                                 key_id |-> cfg.keyId,
                                                 name |-> call.name,
                                                 phone |-> call.phone])]
    /\ UNCHANGED <<clientVars, cfg, dbVars, visits>>

\* The catch of create-order.
OrdersCreateRejects(msg) ==
    /\ pay.pc = "await" /\ pay.ep = "create-order"
    /\ pay' = [pay EXCEPT !.pc = "done", !.upstream = msg,
                          !.res = Json(500, [error |-> "Failed to create order",
                                             details |-> msg])]
    /\ UNCHANGED <<clientVars, cfg, dbVars, visits>>

\* POST /api/create-payment-link arrives.
CreatePaymentLink(requests) ==
    /\ pay.pc = "idle" /\ Quiescent
    /\ \E req \in requests :
           pay' \in CreateStart("create-payment-link", "paymentLink.create", req)
    /\ UNCHANGED <<clientVars, cfg, dbVars, visits>>

PaymentLinkCreateResolves ==
    /\ pay.pc = "await" /\ pay.ep = "create-payment-link"
    /\ pay' = [pay EXCEPT !.pc = "done",
                          !.res = Json(200, [payment_link_url |-> "short_url"])]
    /\ UNCHANGED <<clientVars, cfg, dbVars, visits>>

\* The catch of create-payment-link.
PaymentLinkCreateRejects(msg) ==
    /\ pay.pc = "await" /\ pay.ep = "create-payment-link"
    /\ pay' = [pay EXCEPT !.pc = "done", !.upstream = msg,
                          !.res = Json(500, [error |-> "Failed to create payment link",
                                             details |-> msg])]
    /\ UNCHANGED <<clientVars, cfg, dbVars, visits>>

\* POST /api/verify-order-payment arrives.
VerifyOrderPayment(requests) ==
    /\ pay.pc = "idle" /\ Quiescent
    /\ \E req \in requests :
       \E res \in VerifyOrderPaymentRun(req) :
           pay' = Done("verify-order-payment", req, <<>>, res)
    /\ UNCHANGED <<clientVars, cfg, dbVars, visits>>

Substitute(str, i, c) == [str EXCEPT ![i] = c]

SignatureAlphabet == IdAlphabet \cup AttackerKeys \cup {"hmac", "g"}

\* The strings that differ from str in exactly one character.
Substitutions(str, alphabet) ==
    UNION {{Substitute(str, i, c) : c \in alphabet \ {str[i]}} : i \in 1..Len(str)}

\* The requests that differ from req in one character of one of the three
\* signed fields.
SingleCharacterChanges(req) ==
    {[req EXCEPT !.razorpay_order_id = o] :
        o \in Substitutions(req.razorpay_order_id, IdAlphabet)}
    \cup
    {[req EXCEPT !.razorpay_payment_id = p] :
        p \in Substitutions(req.razorpay_payment_id, IdAlphabet)}
    \cup
    {[req EXCEPT !.razorpay_signature = sg] :
        sg \in Substitutions(req.razorpay_signature, SignatureAlphabet)}

\* A request that was accepted is sent again with one character changed.
VerifyTamperedOrderPayment ==
    /\ pay.pc = "done" /\ pay.ep = "verify-order-payment"
    /\ pay.res.success = "true"
    /\ \E req \in SingleCharacterChanges(pay.req) :
       \E res \in VerifyOrderPaymentRun(req) :
           pay' = [Done("verify-order-payment", req, <<>>, res)
                       EXCEPT !.tampered = TRUE]
    /\ UNCHANGED <<clientVars, cfg, dbVars, visits>>

\* GET /api/verify-payment arrives.
VerifyPayment(requests) ==
    /\ pay.pc = "idle" /\ Quiescent
    /\ \E req \in requests : pay' \in VerifyPaymentStart(req)
    /\ UNCHANGED <<clientVars, cfg, dbVars, visits>>

\* razorpay.payments.fetch resolves.
PaymentsFetchResolves(payment) ==
    /\ pay.pc = "await" /\ pay.ep = "verify-payment"
    /\ pay' = [pay EXCEPT !.pc = "done",
                 !.res = Json(200,
                    [success |-> "true",
                     payment_id |-> pay.req.razorpay_payment_id,
                     amount |-> Some(DivideBy(Rat(payment.amount, 1), 100)),
                     currency |-> payment.currency,
                     name |-> IF payment.notes = <<>> THEN <<>>
                              ELSE payment.notes[1].customer_name,
                     phone |-> IF payment.notes = <<>> THEN <<>>
                               ELSE payment.notes[1].customer_phone,
                     pstatus |-> payment.status])]
    /\ UNCHANGED <<clientVars, cfg, dbVars, visits>>

\* The catch of verify-payment.
PaymentsFetchRejects(msg) ==
    /\ pay.pc = "await" /\ pay.ep = "verify-payment"
    /\ pay' = [pay EXCEPT !.pc = "done", !.upstream = msg,
                 !.res = Json(500, [success |-> "false",
                                    error |-> "Failed to fetch payment details"])]
    /\ UNCHANGED <<clientVars, cfg, dbVars, visits>>

\* The response is out; the server takes the next request.
NextPayRequest ==
    /\ pay.pc = "done"
    /\ pay' = IdlePay
    /\ UNCHANGED <<clientVars, cfg, dbVars, visits>>

\* GET /api/form-data: the catalogue, from memory.
FormData ==
    /\ pay.pc = "idle" /\ Quiescent
    /\ pay' = Done("form-data", NoReq, <<>>, Json(200, [services |-> Services]))
    /\ UNCHANGED <<clientVars, cfg, dbVars, visits>>

\* What the provider does with the call a handler awaits.
ProviderAnswers ==
    \/ \E id \in ProviderOrderIds : OrdersCreateResolves(id)
    \/ \E msg \in ProviderErrors : OrdersCreateRejects(msg)
    \/ PaymentLinkCreateResolves
    \/ \E msg \in ProviderErrors : PaymentLinkCreateRejects(msg)
    \/ \E payment \in ProviderPayments : PaymentsFetchResolves(payment)
    \/ \E msg \in ProviderErrors : PaymentsFetchRejects(msg)

PayNext ==
    \/ CreateOrder(CreateRequests)
    \/ CreatePaymentLink(CreateRequests)
    \/ VerifyOrderPayment(VerifyOrderRequests)
    \/ VerifyTamperedOrderPayment
    \/ VerifyPayment(VerifyPaymentRequests)
    \/ FormData
    \/ ProviderAnswers
    \/ NextPayRequest

PaySpec == PayInit /\ [][PayNext]_vars

-----------------------------------------------------------------------------
(* DbSpec: connectDB, GET /api/health and the analytics router *)

DbInit ==
    /\ BookingPageLoads
    /\ DeepDiveMounts
    /\ cfg \in {c \in Configs : c.keyId}
    /\ pay = IdlePay
    /\ \E uri \in BOOLEAN : DbBoot(uri)
    /\ visits \in VisitStores

\* A request arrives on GET /api/health or under /api/analytics and its
\* handler (the router's middleware) calls connectDB.
Arrive(c, k) ==
    /\ ~InMicrotasks
    /\ callers[c].pc = "idle" /\ pay.pc = "idle"
    /\ LET next == ConnectDB(k) IN
       /\ StartsAttempt(next) => CanConnect
       /\ callers' = [callers EXCEPT ![c] = next[1]]
       /\ readyState' = next[2]
       /\ connectionPromise' = next[3]
       /\ attempts' = next[4]
    /\ UNCHANGED <<clientVars, cfg, pay, mongoUri, visits, last>>

\* The "disconnected" event ends a close: every connectDB call waiting for
\* it is resumed.
Disconnected ==
    /\ ~InMicrotasks
    /\ readyState = 3
    /\ readyState' = 0
    /\ callers' = [c \in 1..NumCallers |->
                     IF callers[c].pc = "waitDisconnected"
                     THEN [callers[c] EXCEPT !.pc = "resume"] ELSE callers[c]]
    /\ UNCHANGED <<clientVars, cfg, pay, mongoUri, connectionPromise, attempts, visits, last>>

\* A resumed connectDB call goes on from line 33.
Resume(c) ==
    /\ callers[c].pc = "resume"
    /\ LET next == ConnectFromCache(callers[c].kind) IN
       /\ StartsAttempt(next) => CanConnect
       /\ callers' = [callers EXCEPT ![c] = next[1]]
       /\ readyState' = next[2]
       /\ connectionPromise' = next[3]
       /\ attempts' = next[4]
    /\ UNCHANGED <<clientVars, cfg, pay, mongoUri, visits, last>>

\* The callers that wait for attempt id go on with its outcome.
Settle(id, outcome, msg) ==
    [c \in 1..NumCallers |->
        IF callers[c].pc = "await" /\ callers[c].awaits = id
        THEN [callers[c] EXCEPT !.pc = outcome, !.err = msg] ELSE callers[c]]

\* mongoose.connect resolves: the .then of line 47 logs, and every caller
\* that returned connectionPromise is resumed.
ConnectSucceeds ==
    /\ ~InMicrotasks
    /\ connectionPromise # 0 /\ attempts[connectionPromise] = "pending"
    /\ readyState' = 1
    /\ attempts' = [attempts EXCEPT ![connectionPromise] = "fulfilled"]
    /\ callers' = Settle(connectionPromise, "resolved", "")
    /\ UNCHANGED <<clientVars, cfg, pay, mongoUri, connectionPromise, visits, last>>

\* The .catch of line 50 without its line 52: the failed promise stays cached.
ConnectFailsKeepsPromise ==
    /\ ~InMicrotasks
    /\ connectionPromise # 0 /\ attempts[connectionPromise] = "pending"
    /\ readyState' = 0
    /\ attempts' = [attempts EXCEPT ![connectionPromise] = "rejected"]
    /\ callers' = Settle(connectionPromise, "rejected", "connect failed")
    /\ UNCHANGED <<clientVars, cfg, pay, mongoUri, connectionPromise, visits, last>>

\* mongoose.connect rejects: the .catch of line 50 clears connectionPromise
\* and rethrows to every caller that returned it.
ConnectFails ==
    /\ ~InMicrotasks
    /\ connectionPromise # 0 /\ attempts[connectionPromise] = "pending"
    /\ readyState' = 0
    /\ attempts' = [attempts EXCEPT ![connectionPromise] = "rejected"]
    /\ connectionPromise' = 0
    /\ callers' = Settle(connectionPromise, "rejected", "connect failed")
    /\ UNCHANGED <<clientVars, cfg, pay, mongoUri, visits, last>>

\* The driver loses the server.
ConnectionLost ==
    /\ ~InMicrotasks
    /\ readyState = 1
    /\ readyState' = 0
    /\ UNCHANGED <<clientVars, cfg, pay, mongoUri, connectionPromise, attempts, callers, visits, last>>

\* The driver finds the server again by itself.
Reconnected ==
    /\ ~InMicrotasks
    /\ readyState = 0
    /\ \E i \in 1..Len(attempts) : attempts[i] = "fulfilled"
    /\ readyState' = 1
    /\ UNCHANGED <<clientVars, cfg, pay, mongoUri, connectionPromise, attempts, callers, visits, last>>

\* The connection starts to close.
CloseBegins ==
    /\ ~InMicrotasks
    /\ readyState = 1
    /\ readyState' = 3
    /\ UNCHANGED <<clientVars, cfg, pay, mongoUri, connectionPromise, attempts, callers, visits, last>>

\* GET /api/health after its await connectDB(): the try answers 200, the
\* catch 500.
HealthResponds(c) ==
    /\ callers[c].kind = "health"
    /\ callers[c].pc \in {"resolved", "rejected"}
    /\ last' = IF callers[c].pc = "resolved"
               THEN Response("health", "", 200,
                             [connect |-> "resolved", mongoState |-> readyState])
               ELSE Response("health", "", 500,
                             [connect |-> "rejected", mongoState |-> readyState,
                              error |-> callers[c].err])
    /\ callers' = [callers EXCEPT ![c] = IdleCaller]
    /\ UNCHANGED <<clientVars, cfg, pay, mongoUri, readyState, connectionPromise, attempts, visits>>

\* The analytics middleware's catch: 503, and next() is not called.
MiddlewareRejects(c) ==
    /\ callers[c].kind = "analytics"
    /\ callers[c].pc = "rejected"
    /\ last' = Response("analytics", "", 503,
                        [connect |-> "rejected", mongoState |-> readyState,
                         error |-> "Database unavailable",
                         details |-> callers[c].err])
    /\ callers' = [callers EXCEPT ![c] = IdleCaller]
    /\ UNCHANGED <<clientVars, cfg, pay, mongoUri, readyState, connectionPromise, attempts, visits>>

\* The middleware calls next() and GET /api/analytics/health answers.
AnalyticsHealth(c) ==
    /\ callers[c].kind = "analytics"
    /\ callers[c].pc = "resolved"
    /\ last' = Response("analytics", "health", 200,
                        [connect |-> "resolved", mongoState |-> readyState])
    /\ callers' = [callers EXCEPT ![c] = IdleCaller]
    /\ UNCHANGED <<clientVars, cfg, pay, mongoUri, readyState, connectionPromise, attempts, visits>>

\* The middleware calls next() and a data route runs to its await of
\* Visit.find / Visit.aggregate.
RouteQueries(c) ==
    /\ callers[c].kind = "analytics"
    /\ callers[c].pc = "resolved"
    /\ callers' = [callers EXCEPT ![c].pc = "querying"]
    /\ UNCHANGED <<clientVars, cfg, pay, mongoUri, readyState, connectionPromise, attempts, visits, last>>

\* A route whose sort({ date: -1 }) reorders the collection itself.
QueryResolvesSortingStore(c, route, query) ==
    /\ ~InMicrotasks
    /\ callers[c].pc = "querying"
    /\ readyState = 1
    /\ \E answer \in Answers(route, query, visits) :
           last' = Response("analytics", route, answer.status,
                            [connect |-> "resolved", mongoState |-> readyState,
                             queried |-> TRUE, query |-> query,
                             error |-> answer.error, details |-> answer.details,
                             body |-> answer.body])
    /\ callers' = [callers EXCEPT ![c] = IdleCaller]
    /\ visits' = [i \in 1..Len(visits) |-> visits[Len(visits) + 1 - i]]
    /\ UNCHANGED <<clientVars, cfg, pay, mongoUri, readyState, connectionPromise, attempts>>

\* The query returns and the route answers.
QueryResolves(c, route, query) ==
    /\ ~InMicrotasks
    /\ callers[c].pc = "querying"
    /\ readyState = 1
    /\ \E answer \in Answers(route, query, visits) :
           last' = Response("analytics", route, answer.status,
                            [connect |-> "resolved", mongoState |-> readyState,
                             queried |-> TRUE, query |-> query,
                             error |-> answer.error, details |-> answer.details,
                             body |-> answer.body])
    /\ callers' = [callers EXCEPT ![c] = IdleCaller]
    /\ UNCHANGED <<clientVars, cfg, pay, mongoUri, readyState, connectionPromise, attempts, visits>>

\* The query fails (no server, buffering timed out) and the route's catch
\* answers 500; only /summary attaches the error's message.
QueryRejects(c, route) ==
    /\ ~InMicrotasks
    /\ callers[c].pc = "querying"
    /\ last' = Response("analytics", route, 500,
                        [connect |-> "resolved", mongoState |-> readyState,
                         queried |-> TRUE,
                         error |-> RouteError(route),
                         details |-> IF route = "summary" THEN "query failed" ELSE ""])
    /\ callers' = [callers EXCEPT ![c] = IdleCaller]
    /\ UNCHANGED <<clientVars, cfg, pay, mongoUri, readyState, connectionPromise, attempts, visits>>

DbNext ==
    \/ \E c \in 1..NumCallers, k \in {"health", "analytics"} : Arrive(c, k)
    \/ Disconnected
    \/ \E c \in 1..NumCallers : Resume(c)
    \/ ConnectSucceeds
    \/ ConnectFails
    \/ ConnectionLost
    \/ Reconnected
    \/ CloseBegins
    \/ \E c \in 1..NumCallers : HealthResponds(c)
    \/ \E c \in 1..NumCallers : MiddlewareRejects(c)
    \/ \E c \in 1..NumCallers : AnalyticsHealth(c)
    \/ \E c \in 1..NumCallers : RouteQueries(c)
    \/ \E c \in 1..NumCallers, route \in DataRoutes, query \in SampleQueries :
           QueryResolves(c, route, query)
    \/ \E c \in 1..NumCallers, route \in DataRoutes : QueryRejects(c, route)

DbSpec == DbInit /\ [][DbNext]_vars

-----------------------------------------------------------------------------
(* ApiSpec: every endpoint of the server, the payment requests drawn from a *)
(* few representative bodies.                                               *)

Order1 == <<"a">>
Payment1 == <<"a", "a">>

SampleCreateRequests ==
    {[NoReq EXCEPT !.name = <<"A">>, !.phone = <<"A">>, !.amount = a] :
        a \in {JsNum(1000), JsNum(0)}}

SampleVerifyOrderRequests ==
    {[NoReq EXCEPT !.razorpay_order_id = Order1, !.razorpay_payment_id = Payment1,
                   !.razorpay_signature = sg] :
        sg \in {HmacDigest("k1", Order1 \o <<"|">> \o Payment1), Garbage}}

SampleVerifyPaymentRequests ==
    {[NoReq EXCEPT !.razorpay_payment_link_id = Order1,
                   !.razorpay_payment_id = Payment1,
                   !.razorpay_signature = sg] :
        sg \in {HmacDigest("k1", Join(<<Order1, Undefined, Undefined, Payment1>>, <<"|">>)),
                Garbage}}

ApiInit ==
    /\ BookingPageLoads
    /\ DeepDiveMounts
    /\ cfg \in Configs
    /\ pay = IdlePay
    /\ \E uri \in BOOLEAN : DbBoot(uri)
    /\ visits \in VisitStores

ApiNext ==
    \/ CreateOrder(SampleCreateRequests)
    \/ CreatePaymentLink(SampleCreateRequests)
    \/ VerifyOrderPayment(SampleVerifyOrderRequests)
    \/ VerifyTamperedOrderPayment
    \/ VerifyPayment(SampleVerifyPaymentRequests)
    \/ FormData
    \/ ProviderAnswers
    \/ NextPayRequest
    \/ DbNext

ApiSpec == ApiInit /\ [][ApiNext]_vars

(* AnalyticsSpec: the data routes of the analytics router over every small  *)
(* collection, on a server whose connection is established.                 *)

AnalyticsInit ==
    /\ BookingPageLoads
    /\ DeepDiveMounts
    /\ cfg \in {c \in Configs : c.keyId}
    /\ pay = IdlePay
    /\ mongoUri = TRUE
    /\ readyState = 1
    /\ connectionPromise = 1
    /\ attempts = <<"fulfilled">>
    /\ callers = [c \in 1..NumCallers |-> IdleCaller]
    /\ last = NoResponse
    /\ visits \in StoresUpTo(MaxVisits)

\* What a request to a data route is answered when the connection is
\* established: connectDB returns at once (db.js line 24), the middleware
\* calls next(), the route queries and answers.
Served(route, query) ==
    {Response("analytics", route, answer.status,
              [connect |-> "resolved", mongoState |-> readyState,
               queried |-> TRUE, query |-> query,
               error |-> answer.error, details |-> answer.details,
               body |-> answer.body]) :
        answer \in Answers(route, query, visits)}

\* GET /api/analytics/summary
GetSummary(query) ==
    /\ readyState = 1 /\ Quiescent /\ last = NoResponse
    /\ last' \in Served("summary", query)
    /\ UNCHANGED <<clientVars, cfg, pay, mongoUri, readyState, connectionPromise, attempts,
                   callers, visits>>

\* GET /api/analytics/top-services
GetTopServices(query) ==
    /\ readyState = 1 /\ Quiescent /\ last = NoResponse
    /\ last' \in Served("top-services", query)
    /\ UNCHANGED <<clientVars, cfg, pay, mongoUri, readyState, connectionPromise, attempts,
                   callers, visits>>

\* GET /api/analytics/employees
GetEmployees(query) ==
    /\ readyState = 1 /\ Quiescent /\ last = NoResponse
    /\ last' \in Served("employees", query)
    /\ UNCHANGED <<clientVars, cfg, pay, mongoUri, readyState, connectionPromise, attempts,
                   callers, visits>>

\* GET /api/analytics/employee/:name
GetEmployee(query) ==
    /\ readyState = 1 /\ Quiescent /\ last = NoResponse
    /\ last' \in Served("employee", query)
    /\ UNCHANGED <<clientVars, cfg, pay, mongoUri, readyState, connectionPromise, attempts,
                   callers, visits>>

\* GET /api/analytics/repeat-customers
GetRepeatCustomers(query) ==
    /\ readyState = 1 /\ Quiescent /\ last = NoResponse
    /\ last' \in Served("repeat-customers", query)
    /\ UNCHANGED <<clientVars, cfg, pay, mongoUri, readyState, connectionPromise, attempts,
                   callers, visits>>

\* GET /api/analytics/export
GetExport(query) ==
    /\ readyState = 1 /\ Quiescent /\ last = NoResponse
    /\ last' \in Served("export", query)
    /\ UNCHANGED <<clientVars, cfg, pay, mongoUri, readyState, connectionPromise, attempts,
                   callers, visits>>

\* The response has been read; the next request may come.  The routes keep
\* nothing from one request to the next.
NextAnalyticsRequest ==
    /\ last # NoResponse
    /\ last' = NoResponse
    /\ UNCHANGED <<clientVars, cfg, pay, mongoUri, readyState, connectionPromise, attempts,
                   callers, visits>>

AnalyticsNext ==
    \/ \E query \in Queries : GetSummary(query)
    \/ \E query \in Queries : GetTopServices(query)
    \/ \E query \in Queries : GetEmployees(query)
    \/ \E query \in EmployeeQueries : GetEmployee(query)
    \/ \E query \in Queries : GetRepeatCustomers(query)
    \/ \E query \in Queries : GetExport(query)
    \/ NextAnalyticsRequest

AnalyticsSpec == AnalyticsInit /\ [][AnalyticsNext]_vars


-----------------------------------------------------------------------------
(* BookingSpec: the booking page in one browser, from the form to the     *)
(* payment-status page, against the payment endpoints above.              *)

serverVars == <<cfg, pay, dbVars, visits>>

\* What the user may type and pick; the age field is left empty.
TypedNames == {<<"A", "l">>}
TypedPhones == {<<"9", "8", "7", "6", "5", "4", "3", "2", "1", "0">>}
TypedAmounts == {<<"1">>}
TypedDiscounts == {<<>>, <<"0", ".", "5">>, <<"1", "5", "0">>, <<"-", "5">>}
Typed ==
    [name |-> TypedNames, phone |-> TypedPhones, amount |-> TypedAmounts,
     discount |-> TypedDiscounts]

\* The services the user picks among, once the list has come.
PickedServices == {"sv1", "sv2"}
Offered == {dropdownData[i].id : i \in DOMAIN dropdownData} \cap PickedServices

\* The form as the hook holds it after mounting.
MountedForm == [EMPTY_FORM EXCEPT !.amount = <<"0">>]

\* The hook of a page that is not, or no longer, mounted.
HookUnmounts ==
    /\ dropdownData' = NoServices
    /\ formData' = MountedForm
    /\ isLoading' = FALSE
    /\ paymentError' = ""

Remove(s, i) == SubSeq(s, 1, i - 1) \o SubSeq(s, i + 1, Len(s))

\* fetchFormData().then(setDropdownData): GET /api/form-data answers from
\* memory.
fetchFormDataResolves ==
    /\ location = "booking" /\ dropdownData = NoServices
    /\ dropdownData' = Json(200, [services |-> Services]).services
    /\ formData' = Rendered(formData, dropdownData', Payable(formData, dropdownData))
    /\ UNCHANGED <<location, isLoading, paymentError, submits, scripts,
                   paymentStatus, verified, deepDiveVars, serverVars>>

\* const handleChange: an input of the form changes.
handleChange(field, value) ==
    /\ location = "booking"
    /\ formData[field] # value
    /\ formData' = Rendered([formData EXCEPT ![field] = value], dropdownData,
                            Payable(formData, dropdownData))
    /\ UNCHANGED <<location, dropdownData, isLoading, paymentError, submits,
                   scripts, paymentStatus, verified, deepDiveVars, serverVars>>

\* MultiSelect: a service is toggled, or the selection cleared.
Toggled(values, id) ==
    IF \E i \in DOMAIN values : values[i] = id
    THEN SelectSeq(values, LAMBDA v : v # id)
    ELSE Append(values, id)

\* const handleMultiSelect("searchService")
handleMultiSelect(values) ==
    /\ location = "booking"
    /\ formData.searchService # values
    /\ formData' = Rendered([formData EXCEPT !.searchService = values],
                            dropdownData, Payable(formData, dropdownData))
    /\ UNCHANGED <<location, dropdownData, isLoading, paymentError, submits,
                   scripts, paymentStatus, verified, deepDiveVars, serverVars>>

\* const handleReset
handleReset ==
    /\ location = "booking"
    /\ formData' = Rendered(EMPTY_FORM, dropdownData, Payable(formData, dropdownData))
    /\ paymentError' = ""
    /\ formData' # formData \/ paymentError' # paymentError
    /\ UNCHANGED <<location, dropdownData, isLoading, submits, scripts,
                   paymentStatus, verified, deepDiveVars, serverVars>>

\* handleSubmit from `const order = await createOrder(` on: the request is
\* built from the render the invocation closed over.
CallsCreateOrder(inv) ==
    [inv EXCEPT !.pc = "createOrder",
                !.request = OrderRequest(inv.formData, inv.payable)]

\* The catch of handleSubmit, and ondismiss: the setState calls reach the
\* hook only while it is mounted.
Caught(k, msg) ==
    /\ submits' = Remove(submits, k)
    /\ IF submits[k].mounted
       THEN paymentError' = msg /\ isLoading' = FALSE
       ELSE UNCHANGED <<paymentError, isLoading>>

\* const handleSubmit, up to its first await that does not resolve at once.
\* A promise that is already resolved lets the invocation run on to
\* createOrder before any other event.  The button is disabled while
\* isLoading; a form that does not validate only shows its errors.
handleSubmit ==
    /\ location = "booking" /\ ~isLoading
    /\ Len(submits) < MaxSubmits
    /\ LET sub == Subtotal(formData, dropdownData)
           due == Payable(formData, dropdownData)
           load == loadRazorpayScript(scripts)
           inv == Invocation(formData, due, "script", load.awaits)
       IN  /\ validate(formData, sub, due) = {}
           /\ scripts' = load.body
           /\ submits' = Append(submits, IF load.awaits = 0
                                         THEN CallsCreateOrder(inv) ELSE inv)
    /\ isLoading' = TRUE
    /\ paymentError' = ""
    /\ UNCHANGED <<location, dropdownData, formData, paymentStatus, verified,
                   deepDiveVars, serverVars>>

\* script.onload: resolve(true), and the invocation that awaits it goes on.
ScriptLoads(i) ==
    /\ i \in DOMAIN scripts /\ scripts[i] = "loading"
    /\ scripts' = [scripts EXCEPT ![i] = "loaded"]
    /\ submits' = [k \in DOMAIN submits |->
                      IF submits[k].pc = "script" /\ submits[k].awaits = i
                      THEN CallsCreateOrder(submits[k]) ELSE submits[k]]
    /\ UNCHANGED <<location, dropdownData, formData, isLoading, paymentError,
                   paymentStatus, verified, deepDiveVars, serverVars>>

\* script.onerror: resolve(false), and the invocation that awaits it throws.
ScriptFails(i) ==
    /\ i \in DOMAIN scripts /\ scripts[i] = "loading"
    /\ scripts' = [scripts EXCEPT ![i] = "failed"]
    /\ LET waiting == {k \in DOMAIN submits :
                          submits[k].pc = "script" /\ submits[k].awaits = i}
       IN  IF waiting = {} THEN UNCHANGED <<submits, paymentError, isLoading>>
           ELSE Caught(CHOOSE k \in waiting : TRUE,
                       "Failed to load Razorpay SDK. Check your connection.")
    /\ UNCHANGED <<location, dropdownData, formData, paymentStatus, verified,
                   deepDiveVars, serverVars>>

\* The requests of a kind that the browser has sent and not seen answered.
InFlight(pc) == {submits[k].request : k \in {j \in DOMAIN submits : submits[j].pc = pc}}

\* createOrder returns or throws; then new window.Razorpay(...) and rzp.open().
CreateOrderReturns(k) ==
    /\ pay.pc = "done" /\ pay.ep = "create-order" /\ pay.res.status # 0
    /\ k \in DOMAIN submits
    /\ submits[k].pc = "createOrder" /\ submits[k].request = pay.req
    /\ pay' = IdlePay
    /\ IF pay.res.status # 200
       THEN Caught(k, IF pay.res.error # "" THEN pay.res.error
                      ELSE "Failed to create order")
       ELSE IF ~HasRazorpay(scripts)
       THEN Caught(k, "window.Razorpay is not a constructor")
       ELSE /\ submits' = [submits EXCEPT ![k].pc = "checkout", ![k].order = pay.res]
            /\ UNCHANGED <<paymentError, isLoading>>
    /\ UNCHANGED <<location, dropdownData, formData, scripts, paymentStatus,
                   verified, deepDiveVars, cfg, dbVars, visits>>

\* What the checkout hands to handler for an order: the provider's payment
\* with its signature, or ids with a signature the page made up.
CheckoutPayments == {<<"p", "1">>}
CheckoutResponses(order_id) ==
    {[razorpay_order_id |-> order_id, razorpay_payment_id |-> p,
      razorpay_signature |-> Signature(ch, OrderPayloads(order_id, p))] :
        p \in CheckoutPayments, ch \in {<<"k1", "documented">>, <<"", "junk">>}}

\* handler: up to its await of verifyOrderPayment.
handler(k, response) ==
    /\ k \in DOMAIN submits /\ submits[k].pc = "checkout"
    /\ submits' =
          [submits EXCEPT ![k].pc = "verify",
              ![k].request =
                  [NoReq EXCEPT
                      !.razorpay_order_id = response.razorpay_order_id,
                      !.razorpay_payment_id = response.razorpay_payment_id,
                      !.razorpay_signature = response.razorpay_signature,
                      !.name = Trim(submits[k].formData.name),
                      !.phone = Trim(submits[k].formData.phone),
                      !.amount = LET a == submits[k].order.amount[1] IN
                                 JsNum((1000 * a.num) \div a.den)]]
    /\ UNCHANGED <<location, dropdownData, formData, isLoading, paymentError,
                   scripts, paymentStatus, verified, deepDiveVars, serverVars>>

\* modal.ondismiss
ondismiss(k) ==
    /\ k \in DOMAIN submits /\ submits[k].pc = "checkout"
    /\ Caught(k, "Payment was cancelled. Please try again.")
    /\ UNCHANGED <<location, dropdownData, formData, scripts, paymentStatus,
                   verified, deepDiveVars, serverVars>>

\* String(number) of a number with at most three decimals.
NumberToString(x) ==
    LET m == IF x.den % 1000 = 0 THEN x.num \div (x.den \div 1000)
             ELSE (1000 * x.num) \div x.den
        whole == Digits(m \div 1000)
        frac == Pad(m % 1000, 3)
    IN  IF m % 1000 = 0 THEN whole
        ELSE IF m % 100 = 0 THEN whole \o <<".">> \o SubSeq(frac, 1, 1)
        ELSE IF m % 10 = 0 THEN whole \o <<".">> \o SubSeq(frac, 1, 2)
        ELSE whole \o <<".">> \o frac

\* The query string of /payment-status: searchParams.get gives null for a
\* parameter that is absent.
NoParams ==
    [payment_id |-> Undefined, amount |-> Undefined, name |-> Undefined,
     phone |-> Undefined, razorpay_payment_id |-> Undefined,
     razorpay_payment_link_id |-> Undefined,
     razorpay_payment_link_reference_id |-> Undefined,
     razorpay_payment_link_status |-> Undefined,
     razorpay_signature |-> Undefined]

\* x ?? ""
OrEmpty(x) == IF x = Undefined THEN <<>> ELSE x

\* Flow B of the effect, the payment link: the fetch of /api/verify-payment
\* is sent when the three parameters are there, else the page is "invalid".
FlowB(params) ==
    IF ~Falsy(params.razorpay_payment_id) /\ ~Falsy(params.razorpay_payment_link_id)
       /\ ~Falsy(params.razorpay_signature)
    THEN [state |-> "loading", details |-> NoDetails,
          request |->
              [NoReq EXCEPT
                  !.razorpay_payment_id = params.razorpay_payment_id,
                  !.razorpay_payment_link_id = params.razorpay_payment_link_id,
                  !.razorpay_payment_link_reference_id =
                      OrEmpty(params.razorpay_payment_link_reference_id),
                  !.razorpay_payment_link_status =
                      OrEmpty(params.razorpay_payment_link_status),
                  !.razorpay_signature = params.razorpay_signature]]
    ELSE [state |-> "invalid", details |-> NoDetails, request |-> NoReq]

\* The effect of PaymentStatus on [searchParams], from the "loading" state:
\* Flow A, Flow B up to its fetch, or "invalid".
useEffect(params) ==
    IF ~Falsy(params.payment_id) /\ ~Falsy(params.amount)
    THEN [state |-> "success",
          details |-> [success |-> "true", payment_id |-> params.payment_id,
                       amount |-> Some(StringToNumber(params.amount)),
                       name |-> OrEmpty(params.name),
                       phone |-> OrEmpty(params.phone),
                       pstatus |-> "captured"],
          request |-> NoReq]
    ELSE FlowB(params)

\* verifyOrderPayment returns or throws; on success handler navigates to
\* /payment-status, which unmounts the booking page and mounts PaymentStatus.
VerifyOrderPaymentReturns(k) ==
    /\ pay.pc = "done" /\ pay.ep = "verify-order-payment" /\ pay.res.status # 0
    /\ k \in DOMAIN submits
    /\ submits[k].pc = "verify" /\ submits[k].request = pay.req
    /\ pay' = IdlePay
    /\ IF pay.res.status # 200
       THEN \* the rejection leaves handler unhandled
            /\ submits' = Remove(submits, k)
            /\ UNCHANGED <<location, dropdownData, formData, isLoading,
                           paymentError, paymentStatus, verified>>
       ELSE IF pay.res.success = "true"
       THEN /\ verified' = verified \cup {pay.res.payment_id}
            /\ location' = "payment-status"
            /\ paymentStatus' =
                  useEffect([NoParams EXCEPT
                                !.payment_id = pay.res.payment_id,
                                !.amount = NumberToString(pay.res.amount[1]),
                                !.name = pay.res.name,
                                !.phone = pay.res.phone])
            /\ HookUnmounts
            /\ submits' = [j \in DOMAIN Remove(submits, k) |->
                              [Remove(submits, k)[j] EXCEPT !.mounted = FALSE]]
       ELSE /\ Caught(k, "Payment verification failed. Contact support.")
            /\ UNCHANGED <<location, dropdownData, formData, paymentStatus,
                           verified>>
    /\ UNCHANGED <<scripts, deepDiveVars, cfg, dbVars, visits>>

\* The links of the layout: the user leaves /booking for the landing page
\* and comes back, which mounts the hook anew in the same document.
ReturnToBooking ==
    /\ location = "booking"
    /\ HookUnmounts
    /\ submits' = [j \in DOMAIN submits |-> [submits[j] EXCEPT !.mounted = FALSE]]
    /\ <<dropdownData', formData', isLoading', paymentError', submits'>>
           # <<dropdownData, formData, isLoading, paymentError, submits>>
    /\ UNCHANGED <<location, scripts, paymentStatus, verified, deepDiveVars, serverVars>>

\* The browser loads /payment-status with a query string: a new document.
\* Nothing of the document it replaces is left, so that one is taken to be
\* a booking page nobody has touched, or a payment-status page.
OpenPaymentStatus(params) ==
    /\ formData = MountedForm /\ submits = <<>>
    /\ location' = "payment-status"
    /\ paymentStatus' = useEffect(params)
    /\ HookUnmounts
    /\ submits' = <<>>
    /\ scripts' = <<>>
    /\ UNCHANGED <<verified, deepDiveVars, serverVars>>

\* The fetch of Flow B that has not been answered.
StatusFetches ==
    IF location = "payment-status" /\ paymentStatus.state = "loading"
    THEN {paymentStatus.request} ELSE {}

\* .then((data) => { setDetails(data); setState(...) }) of Flow B
VerifyPaymentReturns ==
    /\ pay.pc = "done" /\ pay.ep = "verify-payment" /\ pay.res.status # 0
    /\ pay.req \in StatusFetches
    /\ pay' = IdlePay
    /\ paymentStatus' =
          [state |-> IF pay.res.success = "true" THEN "success" ELSE "failed",
           details |-> [f \in DOMAIN NoDetails |-> pay.res[f]],
           request |-> NoReq]
    /\ verified' = IF pay.res.success = "true"
                   THEN verified \cup {pay.res.payment_id} ELSE verified
    /\ UNCHANGED <<location, dropdownData, formData, isLoading, paymentError,
                   submits, scripts, deepDiveVars, cfg, dbVars, visits>>

\* A response nobody in the browser waits for any more.
ResponseUnclaimed ==
    /\ pay.pc = "done"
    /\ pay.req \notin InFlight("createOrder") \cup InFlight("verify") \cup StatusFetches
    /\ pay' = IdlePay
    /\ UNCHANGED <<clientVars, cfg, dbVars, visits>>

\* The query strings the page is opened with: Flow A parameters, present or
\* not, with Flow B parameters as Razorpay signs them, forged, or incomplete.
LinkPayment == <<"p", "2">>
LinkId == <<"l">>
StatusUrls ==
    {[NoParams EXCEPT !.payment_id = a[1], !.amount = a[2],
                      !.razorpay_payment_id = b[1],
                      !.razorpay_payment_link_id = b[2],
                      !.razorpay_signature = b[3]] :
        a \in {<<Undefined, Undefined>>, <<<<"p", "1">>, Undefined>>,
               <<<<"p", "1">>, <<"1">>>>, <<<<"p", "3">>, <<"1">>>>,
               <<<<>>, <<"1">>>>},
        b \in {<<Undefined, Undefined, Undefined>>,
               <<LinkPayment, LinkId, Undefined>>,
               <<LinkPayment, LinkId, Garbage>>,
               <<LinkPayment, LinkId,
                 Signature(<<"k1", "documented">>,
                           LinkPayloads(LinkId, <<>>, <<>>, LinkPayment))>>}}

BookingInit ==
    /\ cfg \in {c \in Configs : c.keyId}
    /\ pay = IdlePay
    /\ DbBoot(FALSE)
    /\ visits = <<>>
    /\ BookingPageLoads
    /\ DeepDiveMounts

\* The steps of the server and of the provider that answer the browser.
ServerAnswers ==
    \/ CreateOrder(InFlight("createOrder"))
    \/ \E id \in ProviderOrderIds : OrdersCreateResolves(id)
    \/ \E msg \in ProviderErrors : OrdersCreateRejects(msg)
    \/ VerifyOrderPayment(InFlight("verify"))
    \/ VerifyPayment(StatusFetches)
    \/ \E payment \in ProviderPayments : PaymentsFetchResolves(payment)
    \/ \E msg \in ProviderErrors : PaymentsFetchRejects(msg)
    \/ ResponseUnclaimed

\* The checkout flow of an invocation.
CheckoutSteps ==
    \/ handleSubmit
    \/ \E i \in DOMAIN scripts : ScriptLoads(i)
    \/ \E i \in DOMAIN scripts : ScriptFails(i)
    \/ \E k \in DOMAIN submits : CreateOrderReturns(k)
    \/ \E k \in DOMAIN submits :
           \E response \in CheckoutResponses(submits[k].order.order_id) :
               handler(k, response)
    \/ \E k \in DOMAIN submits : ondismiss(k)
    \/ \E k \in DOMAIN submits : VerifyOrderPaymentReturns(k)

BookingNext ==
    \/ fetchFormDataResolves
    \/ \E field \in DOMAIN Typed : \E value \in Typed[field] :
           handleChange(field, value)
    \/ \E id \in Offered : handleMultiSelect(Toggled(formData.searchService, id))
    \/ handleMultiSelect(<<>>)
    \/ handleReset
    \/ CheckoutSteps
    \/ \E params \in StatusUrls : OpenPaymentStatus(params)
    \/ VerifyPaymentReturns
    \/ ServerAnswers

BookingSpec == BookingInit /\ [][BookingNext]_vars

-----------------------------------------------------------------------------
(* LoaderSpec: loadRazorpayScript as handleSubmit calls it, over several  *)
(* visits of the booking page in one document: an invocation of a page    *)
(* the user has left runs on beside those of the page that is mounted.    *)

LoaderNext ==
    \/ fetchFormDataResolves
    \/ \E field \in {"name", "phone"} : \E value \in Typed[field] :
           handleChange(field, value)
    \/ handleMultiSelect(Toggled(formData.searchService, "sv1"))
    \/ ReturnToBooking
    \/ CheckoutSteps
    \/ CreateOrder(InFlight("createOrder"))
    \/ \E id \in ProviderOrderIds : OrdersCreateResolves(id)
    \/ \E msg \in ProviderErrors : OrdersCreateRejects(msg)
    \/ VerifyOrderPayment(InFlight("verify"))

LoaderSpec == BookingInit /\ [][LoaderNext]_vars

-----------------------------------------------------------------------------
(* Properties of the payment endpoints (PaySpec) *)

OrderPayload(req) == req.razorpay_order_id \o <<"|">> \o req.razorpay_payment_id

LinkPayload(req) ==
    JoinStr(req.razorpay_payment_link_id) \o <<"|">>
    \o JoinStr(req.razorpay_payment_link_reference_id) \o <<"|">>
    \o JoinStr(req.razorpay_payment_link_status) \o <<"|">>
    \o JoinStr(req.razorpay_payment_id)

\* C1: POST /api/verify-order-payment answers success:true only when the
\* signature is the HMAC-SHA256, under the key secret, of order id "|"
\* payment id; and an accepted request sent again with one character of the
\* order id, the payment id or the signature changed is answered 400
\* "Invalid payment signature", never success.
C1_OrderSignature ==
    (pay.pc = "done" /\ pay.ep = "verify-order-payment") =>
        /\ pay.res.success = "true" =>
              /\ cfg.keySecret # NoSecret
              /\ pay.req.razorpay_signature
                    = HmacDigest(cfg.keySecret, OrderPayload(pay.req))
        /\ pay.tampered =>
              /\ pay.res.status = 400
              /\ pay.res.error = "Invalid payment signature"
              /\ pay.res.success = "false"

\* An accepted request was changed in one character and rejected.
C1_Witness ==
    /\ pay.pc = "done" /\ pay.ep = "verify-order-payment"
    /\ pay.tampered /\ pay.res.status = 400

\* C2: GET /api/verify-payment calls payments.fetch, and answers
\* success:true, only after the signature was found equal to the HMAC-SHA256
\* of link id, reference id, link status and payment id joined with "|" in
\* that order; on a mismatch payments.fetch is never called and the answer
\* is 400 (on a server with provider credentials; without them the 503 of
\* the credentials check comes before the comparison).
C2_LinkSignature ==
    pay.ep = "verify-payment" =>
        LET matches == /\ cfg.keySecret # NoSecret
                       /\ pay.req.razorpay_signature
                             = HmacDigest(cfg.keySecret, LinkPayload(pay.req))
        IN  /\ pay.calls # <<>> =>
                  /\ matches
                  /\ Len(pay.calls) = 1 /\ pay.calls[1].api = "payments.fetch"
            /\ pay.res.success = "true" => pay.calls # <<>>
            /\ (pay.pc = "done" /\ ~matches) =>
                  /\ pay.calls = <<>>
                  /\ razorpay => pay.res.status = 400
                  /\ pay.res.success # "true"

\* A link callback was verified, the payment fetched and success answered.
C2_Witness ==
    /\ pay.pc = "done" /\ pay.ep = "verify-payment"
    /\ pay.res.success = "true" /\ pay.calls # <<>>

\* An amount is non-numeric when it is missing or converts to NaN.
NonNumeric(v) == v.t = "undefined" \/ ToNumber(v).nan

BelowOneRupee(v) == ~ToNumber(v).nan /\ ToNumber(v).num < ToNumber(v).den

CreateEndpoints == {"create-order", "create-payment-link"}

\* C6 (as stated): on a server with provider credentials, every
\* create-order and create-payment-link request whose amount is non-numeric
\* or below 1 rupee is answered 400 and reaches no provider create call.
C6_BadAmountRejected ==
    (pay.ep \in CreateEndpoints /\ razorpay
     /\ (NonNumeric(pay.req.amount) \/ BelowOneRupee(pay.req.amount))) =>
        /\ pay.calls = <<>>
        /\ pay.pc = "done" /\ pay.res.status = 400

\* C7: for every create-order request that passes validation, the amount
\* sent to the provider is an integer number of paise nearest to the input
\* rupee amount times 100, and the same amount is returned to the client.
C7_AmountInPaise ==
    (pay.ep = "create-order" /\ pay.calls # <<>>) =>
        LET x == ToNumber(pay.req.amount)
            sent == pay.calls[1].amount
            diff == 2 * (sent * x.den - 100 * x.num)
        IN  /\ ~x.nan
            /\ diff <= x.den /\ -diff <= x.den
            /\ (pay.pc = "done" /\ pay.res.status = 200) =>
                   pay.res.amount = Some(Rat(sent, 1))

\* An order was created for an amount that had to be rounded.
C7_Witness ==
    /\ pay.ep = "create-order" /\ pay.pc = "done" /\ pay.res.status = 200
    /\ pay.req.amount.t = "number"
    /\ pay.calls[1].amount * 10 # pay.req.amount.m

\* C8 (as stated): a failure of the provider call of create-order,
\* create-payment-link or verify-payment is answered 500 with the upstream
\* error message in the body.
C8_UpstreamMessage ==
    (pay.pc = "done" /\ pay.upstream # "") =>
        /\ pay.res.status = 500
        /\ pay.res.details = pay.upstream

PaymentEndpoints ==
    {"create-order", "verify-order-payment", "create-payment-link", "verify-payment"}

\* C9 (as stated): without provider credentials every payment endpoint
\* answers any request 503 and makes no provider call.
C9_NotConfigured503 ==
    (pay.pc = "done" /\ pay.ep \in PaymentEndpoints /\ ~razorpay) =>
        /\ pay.res.status = 503
        /\ pay.calls = <<>>

-----------------------------------------------------------------------------
(* Properties of connectDB and the endpoints that await it (DbSpec) *)

Pending == {i \in 1..Len(attempts) : attempts[i] = "pending"}

AwaitersOf(id) == {c \in 1..NumCallers : callers[c].pc = "await" /\ callers[c].awaits = id}

\* C3: while no connection is established, mongoose.connect is invoked at
\* most once until that attempt settles: at most one attempt is pending, it
\* is the cached promise, no call is made while it is pending, every caller
\* that arrives meanwhile waits on that same attempt, and all of them get its
\* outcome when it settles.
C3_OneAttemptInFlight ==
    /\ [](/\ Cardinality(Pending) <= 1
          /\ \A i \in Pending : connectionPromise = i
          /\ \A c \in 1..NumCallers :
                callers[c].pc = "await" => callers[c].awaits \in Pending)
    /\ [][/\ Pending # {} => Len(attempts') = Len(attempts)
          /\ \A i \in Pending : \A c \in AwaitersOf(i) :
                /\ attempts'[i] = "fulfilled" => callers'[c].pc = "resolved"
                /\ attempts'[i] = "rejected" => callers'[c].pc = "rejected"]_vars

\* Two requests wait on the one attempt that is in flight.
C3_Witness ==
    \E i \in Pending : Cardinality(AwaitersOf(i)) >= 2

LastAttemptFailed == attempts # <<>> /\ attempts[Len(attempts)] = "rejected"

\* A connectDB call starts in this step: a request arrives, or a call that
\* waited for "disconnected" goes on.
Calls(c) ==
    \/ callers[c].pc = "idle" /\ callers'[c].pc # "idle"
    \/ callers[c].pc = "resume" /\ callers'[c].pc # "resume"

\* C4: when a connection attempt fails every caller awaiting it gets the
\* rejection and the cached promise is cleared, so a failed promise is never
\* cached; the next connectDB call starts a fresh attempt; and an attempt is
\* started only by a connectDB call, never by the module itself.
C4_FailureClearsCache ==
    /\ [](connectionPromise # 0 => attempts[connectionPromise] # "rejected")
    /\ [][/\ \A i \in Pending :
                attempts'[i] = "rejected" =>
                    /\ connectionPromise' = 0
                    /\ Len(attempts') = Len(attempts)
                    /\ \A c \in AwaitersOf(i) : callers'[c].pc = "rejected"
          /\ \A c \in 1..NumCallers :
                (Calls(c) /\ LastAttemptFailed) =>
                    /\ Len(attempts') = Len(attempts) + 1
                    /\ attempts'[Len(attempts')] = "pending"
                    /\ callers'[c].pc = "await"
                    /\ callers'[c].awaits = Len(attempts')
          /\ Len(attempts') # Len(attempts) =>
                \E c \in 1..NumCallers : Calls(c) /\ callers'[c].awaits = Len(attempts')
         ]_vars

\* After a failed attempt a request waits on a fresh one.
C4_Witness ==
    /\ Len(attempts) >= 2 /\ attempts[1] = "rejected"
    /\ AwaitersOf(Len(attempts)) # {}

\* C10 (as stated): when connectDB rejects, the analytics routes and
\* GET /api/health answer 503 and no route handler queries the store.
C10_DbUnavailable503 ==
    last.connect = "rejected" =>
        /\ last.status = 503
        /\ ~last.queried

-----------------------------------------------------------------------------
(* Properties of the whole server (ApiSpec) *)

\* C5: no endpoint (payment routes, form-data, health, analytics routes and
\* export) changes the Visit collection, whether it succeeds or fails.
C5_VisitsUnchanged == [][visits' = visits]_vars

\* Requests of both halves have been answered over a non-empty store: an
\* export has read it and a payment endpoint has responded.
C5_Witness ==
    /\ visits # <<>>
    /\ last.route = "export" /\ last.status = 200
    /\ last.body.sheets[1].sheet.data # <<>>
    /\ pay.pc = "done" /\ pay.res.status = 200

-----------------------------------------------------------------------------
(* Properties of the analytics routes (AnalyticsSpec) *)

\* The day of this month a well-formed query date names.
DayNamed(str) == CHOOSE d \in 1..31 : str = IsoDate(Now.year, Now.month + 1, d)

\* The range a query asks for, as days of this month: from the day named
\* by from, or the first, to the day named by to, or today.
FromDay(q) == IF q.from = Undefined THEN 1 ELSE DayNamed(q.from)
ToDay(q) == IF q.to = Undefined THEN Now.date ELSE DayNamed(q.to)

\* The stored visits whose date falls on a day of the range, at any time
\* of that day.
InRange(q) ==
    {i \in DOMAIN visits :
        /\ StoredDate(FromDay(q), 0).day <= visits[i].date.day
        /\ visits[i].date.day <= StoredDate(ToDay(q), 0).day}

Answered(route) == last.route = route /\ last.status = 200

\* C11: GET /summary returns as totalRevenue the sum of finalTotal over
\* exactly the visits dated from local midnight of from to the local end of
\* day of to, both included, and counts exactly those visits; a range whose
\* from is after its to gives zero revenue and zero visits.
C11_SummaryRevenue ==
    Answered("summary") =>
        /\ last.body.totalRevenue =
               Sum([i \in DOMAIN visits |-> visits[i].finalTotal], InRange(last.query))
        /\ last.body.totalVisits = Cardinality(InRange(last.query))
        /\ FromDay(last.query) > ToDay(last.query) =>
               last.body.totalRevenue = 0 /\ last.body.totalVisits = 0

\* A summary over a collection with a visit at the last millisecond of the
\* range's last day, counted, and a visit at midnight of the next day, not
\* counted.
C11_Witness ==
    /\ Answered("summary")
    /\ last.body.totalRevenue > 0
    /\ \E i \in InRange(last.query) :
          /\ visits[i].date.day = StoredDate(ToDay(last.query), 0).day
          /\ visits[i].date.ms = EndOfDayMs
    /\ \E i \in DOMAIN visits :
          /\ visits[i].date.day = StoredDate(ToDay(last.query), 0).day + 1
          /\ visits[i].date.ms = 0

\* C12: the ranks GET /employees returns are 1..N for the N distinct
\* artists with a visit in range, one entry per artist, the entries in
\* non-increasing order of revenue.
C12_LeaderboardRanks ==
    Answered("employees") =>
        LET board == last.body
            artists == {visits[i].artist : i \in InRange(last.query)}
        IN  /\ Len(board) = Cardinality(artists)
            /\ \A i \in DOMAIN board : board[i].rank = i
            /\ {board[i].name : i \in DOMAIN board} = artists
            /\ \A i \in 1..(Len(board) - 1) : board[i].revenue >= board[i + 1].revenue

\* Three artists are ranked, and the one whose visit is stored first is not
\* the first of the board.
C12_Witness ==
    /\ Answered("employees")
    /\ Len(last.body) = 3
    /\ \E i \in InRange(last.query) :
          /\ \A j \in InRange(last.query) : i <= j
          /\ last.body[1].name # visits[i].artist

\* C13: GET /repeat-customers returns the number of distinct customers in
\* range, how many of them have more than one visit in range and how many
\* exactly one, and as repeatRate the percentage repeatCustomers /
\* totalCustomers * 100 rounded to one decimal place (here: within half a
\* tenth of it); with no visit in range all four are 0.
C13_RepeatRate ==
    Answered("repeat-customers") =>
        LET ids == InRange(last.query)
            customers == {visits[i].contact : i \in ids}
            VisitCount(c) == Cardinality({i \in ids : visits[i].contact = c})
            total == Cardinality(customers)
            repeat == Cardinality({c \in customers : VisitCount(c) > 1})
            rate == last.body.repeatRate
        IN  /\ last.body.totalCustomers = total
            /\ last.body.repeatCustomers = repeat
            /\ last.body.newCustomers = total - repeat
            /\ rate.den = 10
            /\ IF total = 0 THEN rate.num = 0
               ELSE LET diff == rate.num * total - 1000 * repeat
                    IN  2 * diff <= total /\ -2 * diff <= total

\* One customer in three came back: a rate of 33.3, which is rounded.
C13_Witness ==
    /\ Answered("repeat-customers")
    /\ last.body.totalCustomers = 3
    /\ last.body.repeatCustomers = 1
    /\ last.body.repeatRate = Rat(333, 10)

\* C14 (as stated): when no visit matches the range, the workbook GET /export
\* sends has one sheet holding the header row of the 17 column names and no
\* data row.
C14_EmptyExportHasHeader ==
    (Answered("export") /\ InRange(last.query) = {}) =>
        /\ Len(last.body.sheets) = 1
        /\ last.body.sheets[1].sheet.header = ExportColumns
        /\ Len(ExportColumns) = 17
        /\ last.body.sheets[1].sheet.data = <<>>

\* C15: GET /employee/:name for an artist without a visit in the range
\* answers 200 with the all-zero record (every count and amount 0, no top
\* services), whatever visits other artists have in that range.
C15_NoVisitsRecord ==
    (/\ last.route = "employee"
     /\ last.query.from # Malformed
     /\ \A i \in InRange(last.query) : visits[i].artist # last.query.name) =>
        /\ last.status = 200
        /\ last.body.name = last.query.name
        /\ last.body.customersServed = 0 /\ last.body.uniqueCustomers = 0
        /\ last.body.revenue = 0 /\ last.body.hoursWorked.num = 0
        /\ last.body.avgRevenuePerVisit = 0
        /\ last.body.rank = 0 /\ last.body.totalArtists = 0
        /\ last.body.topServices = <<>>

\* An artist without visits is asked for while two other artists have
\* visits in the range.
C15_Witness ==
    /\ Answered("employee")
    /\ \A i \in InRange(last.query) : visits[i].artist # last.query.name
    /\ Cardinality({visits[i].artist : i \in InRange(last.query)}) >= 2

\* The service entries of the visits in range: <<visit, position>> pairs.
EntriesInRange(q) ==
    UNION {{<<i, k>> : k \in DOMAIN visits[i].services} : i \in InRange(q)}

\* C16: GET /top-services returns one entry per distinct service name among
\* the service entries of the visits in range, with the number of those
\* entries as count and the sum of their prices as revenue, in
\* non-increasing order of count; the counts add up to the number of
\* service entries in range.
C16_TopServices ==
    Answered("top-services") =>
        LET top == last.body
            entries == EntriesInRange(last.query)
            Named(n) == {e \in entries : visits[e[1]].services[e[2]].name = n}
            names == {visits[e[1]].services[e[2]].name : e \in entries}
        IN  /\ Len(top) = Cardinality(names)
            /\ {top[i].service : i \in DOMAIN top} = names
            /\ \A i \in DOMAIN top :
                  /\ top[i].count = Cardinality(Named(top[i].service))
                  /\ top[i].revenue =
                         Sum([e \in entries |-> visits[e[1]].services[e[2]].price],
                             Named(top[i].service))
            /\ \A i \in 1..(Len(top) - 1) : top[i].count >= top[i + 1].count
            /\ Sum([i \in DOMAIN top |-> top[i].count], DOMAIN top) = Cardinality(entries)

\* Three services are listed, the most booked one met last among the
\* visits, and two of them booked equally often.
C16_Witness ==
    /\ Answered("top-services")
    /\ Len(last.body) = 3
    /\ last.body[1].count > last.body[2].count
    /\ last.body[2].count = last.body[3].count
    /\ \E i \in InRange(last.query) :
          /\ \A j \in InRange(last.query) : i <= j
          /\ visits[i].services[1].name # last.body[1].service

-----------------------------------------------------------------------------
(* Further properties of connectDB (DbSpec) *)

\* C19 (as stated): whenever a connectDB call has resolved, the mongoose
\* connection is connected (readyState 1) at that moment, also for a call
\* made after an established connection was lost or closed.
C19_ResolvedMeansConnected ==
    \A c \in 1..NumCallers : callers[c].pc = "resolved" => readyState = 1

-----------------------------------------------------------------------------
(* Properties of the booking form (BookingSpec) *)

\* The price the server's catalogue gives a service id.
CataloguePrice(id) ==
    LET listed == {i \in DOMAIN Services : Services[i].id = id} IN
    IF listed = {} THEN 0 ELSE Services[CHOOSE i \in listed : TRUE].price

\* The payable amount of a form: subtotal - round(subtotal * p / 100), the
\* subtotal over the selected services and p the discount input clamped to
\* 0..100 (an empty input is no discount).
PayableOf(form) ==
    LET sub == SumOver(form.searchService, LAMBDA id : CataloguePrice(id))
        d == StringToNumber(form.discount)
        p == IF d.nan \/ d.num <= 0 THEN Rat(0, 1)
             ELSE IF d.num >= 100 * d.den THEN Rat(100, 1) ELSE d
    IN  sub - MathRound(sub * p.num, 100 * p.den)

\* The invocations whose createOrder call has been made and not answered.
Ordering == {k \in DOMAIN submits : submits[k].pc = "createOrder"}

\* C17, as amended: createOrder is called only when the payable amount of
\* the form as it was submitted is greater than 0, and always with that
\* amount: the subtotal of the catalogue prices of the services selected at
\* submission less the rounded discount, the discount input clamped to
\* 0..100; what the amount field holds plays no part.
C17_OrderAmount ==
    \A k \in Ordering :
        /\ PayableOf(submits[k].formData) > 0
        /\ submits[k].request.amount = JsNum(1000 * PayableOf(submits[k].formData))

\* A call is out for a form whose discount rounds (0.5 % of 500 is 2.5, so
\* 497 is due) and whose amount field was typed over.
C17_Witness ==
    \E k \in Ordering :
        /\ submits[k].formData.amount = <<"1">>
        /\ submits[k].formData.discount = <<"0", ".", "5">>
        /\ submits[k].formData.searchService = <<"sv2">>
        /\ submits[k].request.amount = JsNum(497000)

\* C17, as stated: at the step that makes the createOrder call the amount is
\* the payable amount of the services that are selected at that step, and
\* that amount is greater than 0.
C17_OrderOfCurrentSelection ==
    [][\A k \in DOMAIN submits' :
           (/\ submits'[k].pc = "createOrder"
            /\ ~(k \in DOMAIN submits /\ submits[k].pc = "createOrder"))
           => /\ PayableOf(formData') > 0
              /\ submits'[k].request.amount = JsNum(1000 * PayableOf(formData'))]_vars

-----------------------------------------------------------------------------
(* Properties of the checkout script loader (LoaderSpec) *)

\* A step in which handleSubmit has called loadRazorpayScript: its invocation
\* is the new last one.
CallsLoader == Len(submits') = Len(submits) + 1

\* C18: whatever calls of loadRazorpayScript have been made, the document
\* holds at most one script element with id razorpay-script, and a call made
\* when the element exists, its load pending, done or failed, inserts
\* nothing and has its promise resolved.
C18_OneScriptElement ==
    [][/\ Len(scripts') <= 1
       /\ (CallsLoader /\ scripts # <<>>)
              => /\ scripts' = scripts
                 /\ submits'[Len(submits')].awaits = 0
                 /\ submits'[Len(submits')].pc # "script"]_vars

\* The call of one invocation awaits the element's load, and a later call,
\* made while that load is pending, has been resolved.
C18_Witness ==
    /\ scripts = <<"loading">>
    /\ \E j \in DOMAIN submits : \E k \in DOMAIN submits :
           /\ j < k
           /\ submits[j].pc = "script" /\ submits[j].awaits = 1
           /\ submits[k].awaits = 0 /\ submits[k].pc = "createOrder"

-----------------------------------------------------------------------------
(* Properties of the payment-status page (BookingSpec) *)

\* C20: the payment-status page shows "success" only for a payment for which
\* a verification by the backend has answered success: true.
C20_SuccessMeansVerified ==
    (location = "payment-status" /\ paymentStatus.state = "success")
        => paymentStatus.details.payment_id \in verified

-----------------------------------------------------------------------------
(* Further properties of the booking form (BookingSpec) *)

\* The invocations of handleSubmit whose setState calls still reach the hook.
Continuations == {k \in DOMAIN submits : submits[k].mounted}

\* C21: once handleSubmit has set isLoading, every continuation sets it back
\* to false or navigates to /payment-status.  Nothing but a continuation of
\* the mounted hook sets isLoading back, so while the booking page shows
\* isLoading one of them has to be pending still: a form that is loading
\* with no continuation left stays so for good.
C21_LoadingEnds ==
    (location = "booking" /\ isLoading) => Continuations # {}

-----------------------------------------------------------------------------
(* Further properties of the payment endpoints (PaySpec) *)

\* The accepted requests that carry the ids and the signature of the request
\* just answered, with any of the other body fields.
SameProof(req) ==
    {r \in VerifyOrderRequests :
        /\ r.razorpay_order_id = req.razorpay_order_id
        /\ r.razorpay_payment_id = req.razorpay_payment_id
        /\ r.razorpay_signature = req.razorpay_signature}

\* C22: the amount, name and phone of a success response of
\* POST /api/verify-order-payment are those of the order the signature
\* covers: every accepted request with the same order id, payment id and
\* signature is answered with the same amount, name and phone.
C22_AnswerOfTheOrder ==
    (pay.pc = "done" /\ pay.ep = "verify-order-payment" /\ ~pay.tampered
     /\ pay.res.status = 200)
        => \A r \in SameProof(pay.req) :
               \A res \in VerifyOrderPaymentRun(r) :
                   res.status = 200
                       => /\ res.amount = pay.res.amount
                          /\ res.name = pay.res.name
                          /\ res.phone = pay.res.phone

-----------------------------------------------------------------------------
(* The amount shown by the payment-status page (BookingSpec) *)

RECURSIVE Gcd(_, _)
Gcd(a, b) == IF b = 0 THEN a ELSE Gcd(b, a % b)

\* Two numbers are the same number: neither is NaN and the fractions agree
\* in lowest terms.
SameNumber(x, y) ==
    /\ ~IsNaN(x) /\ ~IsNaN(y)
    /\ LET g == Gcd(x.num, x.den)
           h == Gcd(y.num, y.den)
       IN  /\ x.num \div g = y.num \div h
           /\ x.den \div g = y.den \div h

\* "Amount Paid" of the success card: details.amount / 100, before
\* toLocaleString groups its digits.
AmountPaid(details) == DivideBy(details.amount[1], 100)

\* The invocations whose verification is the request just answered.
Verifying == {k \in DOMAIN submits : submits[k].pc = "verify" /\ submits[k].request = pay.req}

\* C23: the amount shown on the success page of a payment of the order flow
\* is the rupee amount of the order, its paise amount divided by 100 once;
\* in the link flow it is the rupee amount of the provider's payment, which
\* /api/verify-payment answers.
C23_AmountShown ==
    [][/\ (/\ location = "booking" /\ location' = "payment-status"
           /\ pay.pc = "done" /\ pay.ep = "verify-order-payment"
           /\ pay.res.success = "true" /\ Verifying # {} /\ pay' = IdlePay)
              => \A k \in Verifying :
                     SameNumber(AmountPaid(paymentStatus'.details),
                                DivideBy(submits[k].order.amount[1], 100))
       /\ (/\ location = "payment-status" /\ paymentStatus.state = "loading"
           /\ pay.pc = "done" /\ pay.ep = "verify-payment"
           /\ pay.res.success = "true" /\ pay.req \in StatusFetches
           /\ pay' = IdlePay)
              => SameNumber(AmountPaid(paymentStatus'.details), pay.res.amount[1])]_vars

-----------------------------------------------------------------------------
(* Further properties of the checkout script loader (LoaderSpec) *)

\* C24: a loadRazorpayScript call resolves true only when the checkout
\* script has finished loading.  An invocation of handleSubmit is past its
\* `await loadRazorpayScript()` only by a promise resolved with true, and a
\* script once loaded stays loaded in its document: so whenever an
\* invocation is past that await, the SDK is available.
C24_TrueMeansLoaded ==
    \A k \in DOMAIN submits : submits[k].pc # "script" => HasRazorpay(scripts)

-----------------------------------------------------------------------------
(* DeepDiveSpec: the employee deep-dive widget of the dashboard, its two    *)
(* effects and the fetches they start, which settle in any order.         *)

\* The second effect, on [api, qs, selected], as it runs after a render
\* with the given selection and range: what it sets and the fetch it starts.
DetailEffect(name, range, pending) ==
    IF name = ""
    THEN /\ data' = null
         /\ loading' = loading
         /\ fetches' = pending
    ELSE /\ data' = data
         /\ loading' = TRUE
         /\ fetches' = Append(pending, DetailFetch(name, range))

\* The dashboard passes another qs: both effects run again.
RangeChanges(range) ==
    /\ range # qs
    /\ Len(fetches) + 2 <= MaxFetches
    /\ qs' = range
    /\ DetailEffect(selected, range, Append(fetches, ListFetch(range)))
    /\ UNCHANGED <<employees, selected, bookingVars, serverVars>>

\* onChange of the select, which is rendered when employees is not empty.
Select(name) ==
    /\ \E i \in DOMAIN employees : employees[i] = name
    /\ name # selected
    /\ Len(fetches) < MaxFetches
    /\ selected' = name
    /\ DetailEffect(name, qs, fetches)
    /\ UNCHANGED <<qs, employees, bookingVars, serverVars>>

\* .then((list) => ...) of the first effect: the first name is selected,
\* and the second effect runs again when that changes the selection.
ListResolves(i) ==
    /\ i \in DOMAIN fetches /\ fetches[i].kind = "list"
    /\ LET list == EmployeesIn(fetches[i].qs)
           first == IF list = <<>> THEN "" ELSE list[1]
       IN  /\ employees' = list
           /\ selected' = first
           /\ IF first # selected
              THEN DetailEffect(first, qs, Remove(fetches, i))
              ELSE /\ data' = IF list = <<>> THEN null ELSE data
                   /\ loading' = loading
                   /\ fetches' = Remove(fetches, i)
    /\ UNCHANGED <<qs, bookingVars, serverVars>>

\* .catch of the first effect: the response is not ok, or the fetch failed.
ListRejects(i) ==
    /\ i \in DOMAIN fetches /\ fetches[i].kind = "list"
    /\ employees' = <<>>
    /\ selected' = ""
    /\ data' = null
    /\ loading' = loading
    /\ fetches' = Remove(fetches, i)
    /\ UNCHANGED <<qs, bookingVars, serverVars>>

\* .then(setData).finally(() => setLoading(false)) of the second effect.
DetailResolves(i) ==
    /\ i \in DOMAIN fetches /\ fetches[i].kind = "detail"
    /\ data' = [name |-> fetches[i].name, qs |-> fetches[i].qs]
    /\ loading' = FALSE
    /\ fetches' = Remove(fetches, i)
    /\ UNCHANGED <<qs, employees, selected, bookingVars, serverVars>>

\* .catch(() => setData(null)).finally(() => setLoading(false))
DetailRejects(i) ==
    /\ i \in DOMAIN fetches /\ fetches[i].kind = "detail"
    /\ data' = null
    /\ loading' = FALSE
    /\ fetches' = Remove(fetches, i)
    /\ UNCHANGED <<qs, employees, selected, bookingVars, serverVars>>

DeepDiveNext ==
    \/ \E range \in Ranges : RangeChanges(range)
    \/ \E i \in DOMAIN employees : Select(employees[i])
    \/ \E i \in DOMAIN fetches : ListResolves(i)
    \/ \E i \in DOMAIN fetches : ListRejects(i)
    \/ \E i \in DOMAIN fetches : DetailResolves(i)
    \/ \E i \in DOMAIN fetches : DetailRejects(i)

DeepDiveSpec == BookingInit /\ [][DeepDiveNext]_vars

-----------------------------------------------------------------------------
(* Properties of the employee deep-dive widget (DeepDiveSpec) *)

\* The detail fetches that have not settled.
PendingDetails == {i \in DOMAIN fetches : fetches[i].kind = "detail"}

\* The render shows the stat cards of data: employees is not empty, loading
\* is false and data is there.
ShowsDetail == employees # <<>> /\ ~loading /\ data # null

\* C25: once no request is in flight, the detail shown is that of the
\* employee selected and of the current date range, and loading is false
\* only when no detail request is pending.
C25_DetailOfSelection ==
    /\ (fetches = <<>> /\ ShowsDetail)
           => (data.name = selected /\ data.qs = qs)
    /\ ~loading => PendingDetails = {}

-----------------------------------------------------------------------------
(* The customer of an order or payment link (PaySpec) *)

\* A name or phone that is missing, empty or only whitespace.
Blank(x) == x = Undefined \/ (x # NonString /\ Trim(x) = <<>>)

\* C26: every order or payment link the backend asks the provider to create
\* carries a non-empty customer name and a non-empty phone, and a request
\* whose name or phone is missing, empty or only whitespace is answered 400
\* and reaches no provider call.
C26_CustomerGiven ==
    pay.ep \in CreateEndpoints =>
        /\ \A i \in DOMAIN pay.calls :
               pay.calls[i].name # <<>> /\ pay.calls[i].phone # <<>>
        /\ (razorpay /\ (Blank(pay.req.name) \/ Blank(pay.req.phone)))
               => /\ pay.calls = <<>>
                  /\ pay.pc = "done" /\ pay.res.status = 400

-----------------------------------------------------------------------------
(* Hours worked (AnalyticsSpec) *)

\* The minute of the day an "HH:mm" string names.
MinuteOfDay(str) ==
    (DigitVal(str[1]) * 10 + DigitVal(str[2])) * 60
    + DigitVal(str[4]) * 10 + DigitVal(str[5])

\* max(endTime - startTime, 0) of a stored visit, in minutes.
Worked(i) ==
    LET d == MinuteOfDay(visits[i].endTime) - MinuteOfDay(visits[i].startTime)
    IN  IF d > 0 THEN d ELSE 0

\* The visits of an artist in the range asked for, and the minutes they sum to.
VisitsInRangeOf(artist) == {i \in InRange(last.query) : visits[i].artist = artist}
MinutesOf(artist) ==
    Sum([i \in VisitsInRangeOf(artist) |-> Worked(i)], VisitsInRangeOf(artist))

\* hours, in tenths, is minutes / 60 rounded to one decimal.
TenthsOf(hours, minutes) ==
    /\ hours.den = 10
    /\ 6 * hours.num - minutes <= 3
    /\ minutes - 6 * hours.num <= 3

\* The answers of the route just answered over the collection without its
\* i-th visit.
AnswersWithout(i) ==
    {a \in Answers(last.route, last.query, Remove(visits, i)) : a.status = 200}

\* C27: in the leaderboard and in the employee detail, hoursWorked of an
\* artist is the sum over the artist's visits in range of
\* max(endTime - startTime, 0), to one decimal: it is never negative, and
\* with any one visit taken out of the collection it is not larger.
C27_HoursWorked ==
    /\ Answered("employees") =>
           \A k \in DOMAIN last.body :
               LET e == last.body[k] IN
               /\ TenthsOf(e.hoursWorked, MinutesOf(e.name))
               /\ e.hoursWorked.num >= 0
               /\ \A i \in DOMAIN visits : \A a \in AnswersWithout(i) :
                      \A j \in DOMAIN a.body :
                          a.body[j].name = e.name
                              => a.body[j].hoursWorked.num <= e.hoursWorked.num
    /\ (Answered("employee") /\ last.body.customersServed > 0) =>
           /\ TenthsOf(last.body.hoursWorked, MinutesOf(last.query.name))
           /\ last.body.hoursWorked.num >= 0
           /\ \A i \in DOMAIN visits : \A a \in AnswersWithout(i) :
                  a.body.hoursWorked.num <= last.body.hoursWorked.num

\* An artist of the leaderboard has a visit that ends after it starts and
\* one that ends before it starts, both in range.
C27_Witness ==
    /\ Answered("employees")
    /\ \E k \in DOMAIN last.body :
           /\ last.body[k].hoursWorked.num > 0
           /\ \E i \in VisitsInRangeOf(last.body[k].name) :
                  MinuteOfDay(visits[i].endTime) < MinuteOfDay(visits[i].startTime)

-----------------------------------------------------------------------------
(* The two employee routes (AnalyticsSpec) *)

\* What GET /employees answers for the range and the collection of the
\* request just answered.
BoardsNow ==
    {a.body : a \in {b \in Answers("employees", last.query, visits) : b.status = 200}}

-----------------------------------------------------------------------------
(* The customers of the repeat-customers result (AnalyticsSpec) *)

\* The contacts of the visits in the range asked for.
ContactsInRange == {visits[i].contact : i \in InRange(last.query)}

\* C29: in every repeat-customers result each distinct contact in range is
\* counted once, as new or as repeat: newCustomers + repeatCustomers =
\* totalCustomers, and totalCustomers is the number of distinct contacts
\* among the visits in range.
C29_EachContactOnce ==
    Answered("repeat-customers") =>
        /\ last.body.newCustomers + last.body.repeatCustomers
               = last.body.totalCustomers
        /\ last.body.totalCustomers = Cardinality(ContactsInRange)
        /\ last.body.newCustomers >= 0 /\ last.body.repeatCustomers >= 0

\* A result counts a new customer and a repeat one, over more visits than
\* contacts.
C29_Witness ==
    /\ Answered("repeat-customers")
    /\ last.body.newCustomers >= 1 /\ last.body.repeatCustomers >= 1
    /\ Cardinality(InRange(last.query)) > Cardinality(ContactsInRange)

-----------------------------------------------------------------------------
(* SeedSpec: backend/seed.js, the visits generateVisit makes for the         *)
(* collection seed() has cleared.                                            *)

\* What Math.random selects among in generateVisit: a few of the customers,
\* service lists and discounts, and every start hour, start minute and
\* duration.
SeedCustomers == {Aarav}
SeedServices == {<<HaircutMen>>, <<HairSpa, Threading>>}
SeedDiscounts == {0, 15}
StartHours == 9..17
StartMinutes == {0, 30}
Durations == {30 + k * 30 : k \in 0..3}

\* function generateVisit, for given draws; the date, artist and the other
\* picked fields do not bear on the times and the totals.
generateVisit(customer, services, discountPercent, startH, durationMins, startM) ==
    LET endH == startH + (durationMins \div 60)
        endM == (startM + (durationMins % 60)) % 60
        startTime == Time(startH, startM)
        endTime == Time(IF endH < 20 THEN endH ELSE 20, endM)
    IN  Visit(customer, "Rahul", StoredDate(1, 0), startTime, endTime, services,
              discountPercent)

\* seed(): connected, the collection cleared by Visit.deleteMany({}).
SeedInit ==
    /\ BookingPageLoads
    /\ DeepDiveMounts
    /\ cfg \in {c \in Configs : c.keyId}
    /\ pay = IdlePay
    /\ mongoUri = TRUE
    /\ readyState = 1
    /\ connectionPromise = 0
    /\ attempts = <<>>
    /\ callers = [c \in 1..NumCallers |-> IdleCaller]
    /\ last = NoResponse
    /\ visits = <<>>

\* Array.from({ length: 150 }, generateVisit): one more visit of the array
\* that insertMany stores.
SeedGenerates ==
    /\ Len(visits) < MaxSeeded
    /\ \E customer \in SeedCustomers, services \in SeedServices,
          discountPercent \in SeedDiscounts, startH \in StartHours,
          durationMins \in Durations, startM \in StartMinutes :
           visits' = Append(visits, generateVisit(customer, services, discountPercent,
                                                  startH, durationMins, startM))
    /\ UNCHANGED <<clientVars, cfg, pay, dbVars>>

SeedNext == SeedGenerates

SeedSpec == SeedInit /\ [][SeedNext]_vars

-----------------------------------------------------------------------------
(* Properties of the seeded visits (SeedSpec) *)

\* C30: every visit generateVisit produces ends later than it starts, by a
\* multiple of 30 minutes between 30 and 150 (the duration drawn), and its
\* finalTotal is subtotal - discountAmount with subtotal the sum of its
\* service prices.
C30_SeededVisit ==
    \A i \in DOMAIN visits :
        LET v == visits[i]
            d == MinuteOfDay(v.endTime) - MinuteOfDay(v.startTime)
        IN  /\ d \in {30, 60, 90, 120, 150}
            /\ v.subtotal = SumPrices(v.services)
            /\ v.finalTotal = v.subtotal - v.discountAmount

====
